---- MODULE Spec2Model ----
(***************************************************************************)
(* task2workflow: the DAG executor (src/src/graph2workflow.py), the graph  *)
(* validator (src/src/graph_validator.py) and the guard injector           *)
(* (src/src/planner/guard_injector.py, src/src/subtask_planner.py).        *)
(*                                                                         *)
(* Python values are abstracted as follows.                                *)
(*   None                 the empty sequence <<>> where a string or a list *)
(*                        is expected, the string "None" where an id is    *)
(*   a "; "-joined string the sequence of its parts                        *)
(*   a dict               a function whose DOMAIN is the key set           *)
(*   a node output        "json" (a JSON-serialisable value) or            *)
(*                        "unserializable" (a dict or list json.dumps      *)
(*                        rejects with TypeError)                          *)
(***************************************************************************)
EXTENDS Integers, Sequences, FiniteSets, TLC

VARIABLES
    workflow_ir,        \* Graph2Workflow.workflow_ir
    pc,                 \* position inside Graph2Workflow.execute
    execution_trace,    \* Graph2Workflow.execution_trace
    completed_nodes,    \* Graph2Workflow.completed_nodes
    node_dependencies,  \* Graph2Workflow.node_dependencies
    outputs,            \* the dict object behind state["outputs"]
    error,              \* the value of the state key "error" between supersteps
    tasks,              \* node functions the scheduler invokes in this superstep
    returned,           \* task -> the "error" of the state that task returned
    result,             \* what execute() returned
    output_writes,      \* history: every assignment state["outputs"][k] = v
    invocations,        \* history: how often each node function was invoked
    inj_ir,             \* the WorkflowIR handed to the guard injectors
    inj_done,           \* GuardInjector.inject has returned
    inj_out,            \* what GuardInjector.inject returned
    inj_twice,          \* GuardInjector.inject has been applied to its own result
    inj_out2,           \* what that second application returned
    planner_done,       \* SubtaskPlanner._inject_param_guard_nodes has returned
    planner_out,        \* what SubtaskPlanner._inject_param_guard_nodes returned
    val_ir,             \* the WorkflowIR handed to GraphValidator.validate
    val_done,           \* GraphValidator.validate has returned
    val_result,         \* the ValidationResult it returned
    plan_pc,            \* position inside SubtaskPlanner.plan
    plan_calls,         \* how often plan has been called on this planner
    max_fix_attempts,   \* Config.max_fix_attempts (environment MAX_FIX_ATTEMPTS)
    last_run,           \* SubtaskPlanner.last_run
    raw_json,           \* the local raw_json: the LLM answer being parsed
    attempt,            \* the loop variable of _auto_fix_json
    fix_calls,          \* history: remediation LLM calls made by this call of plan
    build_input,        \* history: the IR materialized from fixed_json
    plan_result,        \* what plan returned
    ov_pc,              \* position between apply_param_overrides and the tool call
    ov_node,            \* the node (executor, input) the overrides are applied to
    ov_overrides,       \* param_overrides[node.id], Absent when the id has no entry
    ov_outputs,         \* state["outputs"] of the guards when the node runs
    ov_guarded,         \* history: the node input before the overrides
    ov_tool_input,      \* the arguments the tool is invoked with
    tools,              \* Graph2Workflow.tools: the names it maps to a callable
    mcp_tools,          \* the names mcp_manager.has_tool answers True for
    calls,              \* history: the tool and LLM calls made, with their arguments
    ext_json,           \* the JSON text embedded in the LLM answer
    ext_content,        \* the LLM answer handed to JsonExtractor.extract
    ext_done,           \* JsonExtractor.extract has ended
    ext_result,         \* what it returned, or that it raised ValueError
    retriever_mode,     \* Config.retriever_mode, and whether the embedding backend answers
    tools_data,         \* ToolRetriever.tools_data: the catalog, names in insertion order
    pinned_tools,       \* Config.pinned_tools
    rt_scores,          \* the score of each catalog tool against the task
    rt_top_k,           \* the top_k retrieve_subset is called with
    rt_done,            \* retrieve_subset has returned
    rt_ranked,          \* history: what retrieve returned
    rt_result,          \* what retrieve_subset returned: the names of the subset
    ctx_node_dependencies,\* NodeExecutionContext.node_dependencies
    ctx_broadcast_callback,\* NodeExecutionContext.broadcast_callback: whether one is set
    ctx_execution_trace,\* NodeExecutionContext.execution_trace
    ctx_completed_nodes,\* NodeExecutionContext.completed_nodes
    state_outputs,      \* state["outputs"] of the state the node objects are run on
    state_error,        \* state["error"] of that state
    ctx_executions,     \* history: how often execute was called on each node object
    broadcasts,         \* history: the calls of the broadcast callback
    connections,        \* MCPToolManager.connections: server name -> connection
    created_connections,\* history: every MCPClientConnection created, with its server
    thread_op,          \* the manager method each thread runs, and on which server
    thread_pc,          \* position of each thread inside that method
    thread_connection,  \* the local variable connection of each thread
    tool_calls,         \* history: the connection.call_tool calls issued
    merge_errors_args,  \* three values of the state key "error", None included
    merge_tasks_args,   \* three values of the state key "current_task"
    merge_done,         \* the reducers have been applied
    merge_results,      \* what the reducers returned
    scan_content,       \* the text _extract_by_bracket_matching is called with
    scan,               \* idx, start_idx, stack, in_string and escape of its while loop
    scan_done,          \* the function has returned
    scan_result,        \* what it returned
    scan_starts         \* the values start_idx was set to, in order

exec_vars == <<workflow_ir, pc, execution_trace, completed_nodes,
               node_dependencies, outputs, error, tasks, returned, result,
               output_writes, invocations>>

inj_vars == <<inj_ir, inj_done, inj_out, inj_twice, inj_out2, planner_done,
              planner_out>>

val_vars == <<val_ir, val_done, val_result>>

plan_vars == <<plan_pc, plan_calls, max_fix_attempts, last_run, raw_json,
               attempt, fix_calls, build_input, plan_result>>

ov_vars == <<ov_pc, ov_node, ov_overrides, ov_outputs, ov_guarded, ov_tool_input>>

node_vars == <<tools, mcp_tools, calls>>

ext_vars == <<ext_json, ext_content, ext_done, ext_result>>

rt_vars == <<retriever_mode, tools_data, pinned_tools, rt_scores, rt_top_k,
             rt_done, rt_ranked, rt_result>>

ctx_vars == <<ctx_node_dependencies, ctx_broadcast_callback,
              ctx_execution_trace, ctx_completed_nodes, state_outputs,
              state_error, ctx_executions, broadcasts>>

mcp_vars == <<connections, created_connections, thread_op, thread_pc,
              thread_connection, tool_calls>>

mrg_vars == <<merge_errors_args, merge_tasks_args, merge_done, merge_results>>

scan_vars == <<scan_content, scan, scan_done, scan_result, scan_starts>>

not_exec_vars == <<inj_vars, val_vars, plan_vars, ov_vars, node_vars,
    ext_vars, rt_vars, ctx_vars, mcp_vars, mrg_vars, scan_vars>>

not_inj_vars == <<exec_vars, val_vars, plan_vars, ov_vars, node_vars,
    ext_vars, rt_vars, ctx_vars, mcp_vars, mrg_vars, scan_vars>>

not_val_vars == <<exec_vars, inj_vars, plan_vars, ov_vars, node_vars,
    ext_vars, rt_vars, ctx_vars, mcp_vars, mrg_vars, scan_vars>>

not_plan_vars == <<exec_vars, inj_vars, val_vars, ov_vars, node_vars,
    ext_vars, rt_vars, ctx_vars, mcp_vars, mrg_vars, scan_vars>>

not_ov_vars == <<exec_vars, inj_vars, val_vars, plan_vars, node_vars,
    ext_vars, rt_vars, ctx_vars, mcp_vars, mrg_vars, scan_vars>>

not_node_vars == <<exec_vars, inj_vars, val_vars, plan_vars, ov_vars,
    ext_vars, rt_vars, ctx_vars, mcp_vars, mrg_vars, scan_vars>>

not_ext_vars == <<exec_vars, inj_vars, val_vars, plan_vars, ov_vars,
                  node_vars, rt_vars, ctx_vars, mcp_vars, mrg_vars,
    scan_vars>>

not_rt_vars == <<exec_vars, inj_vars, val_vars, plan_vars, ov_vars,
                 node_vars, ext_vars, ctx_vars, mcp_vars, mrg_vars,
    scan_vars>>

not_ctx_vars == <<exec_vars, inj_vars, val_vars, plan_vars, ov_vars,
                  node_vars, ext_vars, rt_vars, mcp_vars, mrg_vars,
    scan_vars>>

not_mcp_vars == <<exec_vars, inj_vars, val_vars, plan_vars, ov_vars,
                  node_vars, ext_vars, rt_vars, ctx_vars, mrg_vars,
    scan_vars>>

not_mrg_vars == <<exec_vars, inj_vars, val_vars, plan_vars, ov_vars,
                  node_vars, ext_vars, rt_vars, ctx_vars, mcp_vars,
    scan_vars>>

not_scan_vars == <<exec_vars, inj_vars, val_vars, plan_vars, ov_vars,
                   node_vars, ext_vars, rt_vars, ctx_vars, mcp_vars,
                   mrg_vars>>

vars == <<exec_vars, inj_vars, val_vars, plan_vars, ov_vars, node_vars,
          ext_vars, rt_vars, ctx_vars, mcp_vars, mrg_vars, scan_vars>>

None == "None"
NoError == <<>>
EmptyDict == [k \in {} |-> None]
START == "__START__"

-----------------------------------------------------------------------------
(* Node ids and the bounded family of workflow IRs.                        *)

\* Every id the model uses; "ST9" only ever names a node that does not exist.
STIds == {"ST1", "ST2", "ST3", "ST9"}
GuardIds == {"GUARD1", "GUARD2", "GUARD3", "GUARD4"}
AllNodeIds == STIds \cup GuardIds
NodeOrder == <<"ST1", "ST2", "ST3", "ST9", "GUARD1", "GUARD2", "GUARD3", "GUARD4">>

\* The ids a template may refer to, in the order they are written in it.
RefOrder == NodeOrder \o <<"task1">>

\* The number after the prefix: int(re.match(r"ST(\d+)", id).group(1)).
IdNum(n) ==
    CASE n = "ST1" -> 1 [] n = "ST2" -> 2 [] n = "ST3" -> 3 [] n = "ST9" -> 9
      [] n = "GUARD1" -> 1 [] n = "GUARD2" -> 2 [] n = "GUARD3" -> 3
      [] n = "GUARD4" -> 4

\* The executor is run on IRs over NodeIds with at most MaxEdges edges.
NodeIds == {"ST1", "ST2", "GUARD1"}
MaxEdges == 2

SeqOf(S) == SelectSeq(NodeOrder, LAMBDA x : x \in S)

\* A source / target hint: null (None, "null" or []), one id, or a list.
NullHint == [form |-> "null", ids |-> <<>>]
StrHint(n) == [form |-> "str", ids |-> <<n>>]
ListHint(s) == IF s = <<>> THEN NullHint ELSE [form |-> "list", ids |-> s]

Range(s) == {s[i] : i \in DOMAIN s}

Keys(d) == DOMAIN d

AllPairs == [i \in 1..(Len(NodeOrder) * Len(NodeOrder)) |->
               <<NodeOrder[((i - 1) \div Len(NodeOrder)) + 1],
                 NodeOrder[((i - 1) % Len(NodeOrder)) + 1]>>]

EdgeSeqOf(E) == SelectSeq(AllPairs, LAMBDA e : e \in E)

EdgeSet(ir) == Range(ir.edges)

NodeSet(ir) == DOMAIN ir.nodes

Pred(ir, n) == {e[1] : e \in {x \in EdgeSet(ir) : x[2] = n}}

Succ(ir, n) == {e[2] : e \in {x \in EdgeSet(ir) : x[1] = n}}

RECURSIVE ReachFrom(_, _)
ReachFrom(E, S) ==
    LET next == S \cup {e[2] : e \in {x \in E : x[1] \in S}}
    IN  IF next = S THEN S ELSE ReachFrom(E, next)

Descendants(ir, n) == ReachFrom(EdgeSet(ir), Succ(ir, n))

Ancestors(ir, n) == {a \in NodeSet(ir) : n \in Descendants(ir, a)}

-----------------------------------------------------------------------------
(* Graph validator: the checks that decide is_valid.                       *)

AsIdList(value) == IF value.form = "null" THEN <<>> ELSE value.ids

RECURSIVE Dedup(_)
Dedup(s) ==
    IF s = <<>> THEN <<>>
    ELSE <<Head(s)>> \o SelectSeq(Dedup(Tail(s)), LAMBDA x : x # Head(s))

RECURSIVE Flatten(_)
Flatten(ss) == IF ss = <<>> THEN <<>> ELSE Head(ss) \o Flatten(Tail(ss))

Count(s, x) == Cardinality({i \in DOMAIN s : s[i] = x})

\* The list of nodes is ir.order; an id listed twice stands for two nodes with
\* that id (and equal fields).
NodeNums(ids) == {IdNum(ids[i]) : i \in DOMAIN ids}

\* "missing" and "out of range" errors of one id family
ContinuityErrors(family, ids) ==
    IF ids = <<>> \/ NodeNums(ids) = 1..Len(ids) THEN <<>>
    ELSE (IF (1..Len(ids)) \ NodeNums(ids) # {}
          THEN <<[kind |-> "missing_number", family |-> family,
                  nums |-> (1..Len(ids)) \ NodeNums(ids)]>> ELSE <<>>)
         \o (IF NodeNums(ids) \ (1..Len(ids)) # {}
             THEN <<[kind |-> "number_out_of_range", family |-> family,
                     nums |-> NodeNums(ids) \ (1..Len(ids))]>> ELSE <<>>)

\* _validate_node_ids: the errors it adds
ValidateNodeIds(ir) ==
    IF ir.order = <<>> THEN <<[kind |-> "empty_nodes"]>>
    ELSE LET seen == Dedup(ir.order)
             dup == SelectSeq(seen, LAMBDA n : Count(ir.order, n) > 1)
             bad == SelectSeq(ir.order, LAMBDA n : n \notin STIds \cup GuardIds)
         IN  [i \in DOMAIN dup |-> [kind |-> "duplicate_id", id |-> dup[i],
                                    count |-> Count(ir.order, dup[i])]]
             \o [i \in DOMAIN bad |-> [kind |-> "bad_id_format", id |-> bad[i]]]
             \o ContinuityErrors("ST", SelectSeq(ir.order, LAMBDA n : n \in STIds))
             \o ContinuityErrors("GUARD", SelectSeq(ir.order, LAMBDA n : n \in GuardIds))

\* The findings of _validate_edges_reference for one node and one of its hints.
HintFindings(ir, n, field, level) ==
    LET hint == AsIdList(ir.nodes[n][field])
        found(h) ==
            IF h \notin Range(ir.order)
            THEN [level |-> "error", kind |-> "hint_missing_node", node |-> n,
                  field |-> field, id |-> h]
            ELSE IF (IF field = "source" THEN <<h, n>> ELSE <<n, h>>) \notin EdgeSet(ir)
            THEN [level |-> "warning", kind |-> "hint_without_edge", node |-> n,
                  field |-> field, id |-> h]
            ELSE [level |-> "ok"]
    IN  SelectSeq([i \in DOMAIN hint |-> found(hint[i])], LAMBDA f : f.level = level)

\* _validate_edges_reference: the errors and the warnings it adds
ValidateEdgesReference(ir) ==
    LET edge_errors(e) ==
            (IF e[1] \notin Range(ir.order)
             THEN <<[kind |-> "edge_source_missing", id |-> e[1]]>> ELSE <<>>)
            \o (IF e[2] \notin Range(ir.order)
                THEN <<[kind |-> "edge_target_missing", id |-> e[2]]>> ELSE <<>>)
        node_findings(n, level) ==
            HintFindings(ir, n, "source", level) \o HintFindings(ir, n, "target", level)
    IN  [errors |-> Flatten([i \in DOMAIN ir.edges |-> edge_errors(ir.edges[i])])
                      \o Flatten([i \in DOMAIN ir.order |->
                                    node_findings(ir.order[i], "error")]),
         warnings |-> Flatten([i \in DOMAIN ir.order |->
                                    node_findings(ir.order[i], "warning")])]

\* graph[node_id] of _validate_dag and _validate_connectivity: the targets of
\* the edges leaving a node, in edge order; an edge whose source is not a node
\* is left out.
Graph(ir, n) ==
    IF n \notin Range(ir.order) THEN <<>>
    ELSE LET out == SelectSeq(ir.edges, LAMBDA e : e[1] = n)
         IN  [i \in DOMAIN out |-> out[i][2]]

IndexOf(s, x) == CHOOSE i \in DOMAIN s : s[i] = x /\ \A j \in 1..(i - 1) : s[j] # x

\* has_cycle(node_id, path): the cycle path found (<<>> for None) and the
\* visited set afterwards; rec_stack is the set of the ids on `path`.
RECURSIVE HasCycle(_, _, _, _)
RECURSIVE VisitNeighbors(_, _, _, _)
HasCycle(ir, node_id, path, visited) ==
    VisitNeighbors(ir, Graph(ir, node_id), Append(path, node_id),
                   visited \cup {node_id})

VisitNeighbors(ir, neighbors, path, visited) ==
    IF neighbors = <<>> THEN [cycle |-> <<>>, visited |-> visited]
    ELSE LET neighbor == Head(neighbors)
         IN  IF neighbor \notin visited
             THEN LET sub == HasCycle(ir, neighbor, path, visited)
                  IN  IF sub.cycle # <<>> THEN sub
                      ELSE VisitNeighbors(ir, Tail(neighbors), path, sub.visited)
             ELSE IF neighbor \in Range(path)
             THEN [cycle |-> SubSeq(path, IndexOf(path, neighbor), Len(path))
                               \o <<neighbor>>,
                   visited |-> visited]
             ELSE VisitNeighbors(ir, Tail(neighbors), path, visited)

FirstCycleFromFirstNode(ir, ids, visited) ==
    IF ids = <<>> THEN <<>> ELSE HasCycle(ir, Head(ids), <<>>, visited).cycle

\* for node_id in graph: ... break at the first cycle
RECURSIVE FirstCycle(_, _, _)
FirstCycle(ir, ids, visited) ==
    IF ids = <<>> THEN <<>>
    ELSE IF Head(ids) \in visited THEN FirstCycle(ir, Tail(ids), visited)
    ELSE LET r == HasCycle(ir, Head(ids), <<>>, visited)
         IN  IF r.cycle # <<>> THEN r.cycle
             ELSE FirstCycle(ir, Tail(ids), r.visited)

ValidateDagSkipped(ir) == <<>>

\* _validate_dag: the errors it adds
ValidateDag(ir) ==
    LET cycle_path == FirstCycle(ir, Dedup(ir.order), {})
    IN  IF cycle_path = <<>> THEN <<>>
        ELSE <<[kind |-> "cycle", path |-> cycle_path]>>

\* _validate_tools: the errors it adds
ValidateTools(ir, available_tools) ==
    LET found(n) ==
            IF ir.nodes[n].executor # "tool" THEN <<>>
            ELSE IF ir.nodes[n].tool_name = None
            THEN <<[kind |-> "tool_name_empty", node |-> n]>>
            ELSE IF available_tools # {} /\ ir.nodes[n].tool_name \notin available_tools
            THEN <<[kind |-> "tool_unavailable", node |-> n,
                    tool |-> ir.nodes[n].tool_name]>>
            ELSE <<>>
    IN  Flatten([i \in DOMAIN ir.order |-> found(ir.order[i])])

\* _validate_connectivity: the errors it adds
ValidateConnectivity(ir) ==
    IF Len(ir.order) <= 1 THEN <<>>
    ELSE LET start_nodes == {n \in Range(ir.order) : AsIdList(ir.nodes[n].source) = <<>>}
             end_nodes == {n \in Range(ir.order) : AsIdList(ir.nodes[n].target) = <<>>}
             reachable == ReachFrom({e \in EdgeSet(ir) : e[1] \in Range(ir.order)},
                                    start_nodes)
             unreachable == Range(ir.order) \ reachable
         IN  (IF start_nodes = {} THEN <<[kind |-> "no_start_node"]>> ELSE <<>>)
             \o (IF end_nodes = {} THEN <<[kind |-> "no_end_node"]>> ELSE <<>>)
             \o (IF start_nodes # {} /\ unreachable # {}
                 THEN <<[kind |-> "unreachable", ids |-> unreachable]>> ELSE <<>>)

\* variable_pattern.findall(value): the ids X of the references {X.output}
\* of a template; a reference with a field path does not match.
OutputRefs(input) ==
    IF input.kind # "template" THEN {}
    ELSE {r.node : r \in {x \in input.refs : x.path = ""}}

\* The findings of _validate_input_output for one node.
InputOutputFindings(ir, n, level) ==
    LET node == ir.nodes[n]
        found(ref) ==
            IF ref \notin OutputRefs(node.input) THEN <<>>
            ELSE IF ref \notin Range(ir.order)
            THEN <<[level |-> "error", kind |-> "ref_missing_node", node |-> n,
                    id |-> ref]>>
            ELSE IF ref = n
            THEN <<[level |-> "error", kind |-> "ref_self", node |-> n]>>
            ELSE IF <<ref, n>> \notin EdgeSet(ir)
            THEN <<[level |-> "warning", kind |-> "ref_without_edge", node |-> n,
                    id |-> ref]>>
            ELSE <<>>
        all == IF node.input.kind = "none"
               THEN <<[level |-> "error", kind |-> "input_missing", node |-> n]>>
               ELSE Flatten([i \in DOMAIN RefOrder |-> found(RefOrder[i])])
                    \o (IF node.output = None
                        THEN <<[level |-> "warning", kind |-> "output_missing",
                                node |-> n]>>
                        ELSE <<>>)
    IN  SelectSeq(all, LAMBDA f : f.level = level)

\* _validate_input_output: the errors and the warnings it adds
ValidateInputOutput(ir) ==
    [errors |-> Flatten([i \in DOMAIN ir.order |->
                            InputOutputFindings(ir, ir.order[i], "error")]),
     warnings |-> Flatten([i \in DOMAIN ir.order |->
                            InputOutputFindings(ir, ir.order[i], "warning")])]

\* ValidationResult after add_error / add_warning calls
ValidationResult(errors, warnings) ==
    [is_valid |-> errors = <<>>, errors |-> errors, warnings |-> warnings]

ValidateFirstFailure(ir, available_tools) ==
    IF ValidateNodeIds(ir) # <<>> THEN ValidationResult(ValidateNodeIds(ir), <<>>)
    ELSE IF ValidateEdgesReference(ir).errors # <<>>
    THEN ValidationResult(ValidateEdgesReference(ir).errors,
                          ValidateEdgesReference(ir).warnings)
    ELSE ValidationResult(
            ValidateDag(ir) \o ValidateTools(ir, available_tools)
                \o ValidateConnectivity(ir) \o ValidateInputOutput(ir).errors,
            ValidateEdgesReference(ir).warnings \o ValidateInputOutput(ir).warnings)

\* GraphValidator(available_tools).validate(ir)
Validate(ir, available_tools) ==
    ValidationResult(
        ValidateNodeIds(ir)
            \o ValidateEdgesReference(ir).errors
            \o ValidateDag(ir)
            \o ValidateTools(ir, available_tools)
            \o ValidateConnectivity(ir)
            \o ValidateInputOutput(ir).errors,
        ValidateEdgesReference(ir).warnings \o ValidateInputOutput(ir).warnings)

IsValid(ir) == Validate(ir, {}).is_valid

-----------------------------------------------------------------------------
(* The IRs the executor is run on: accepted by the validator.              *)

\* A node input: a template holding references {id.output<path>}, the
\* rewritten {"__from_guard__": g}, or the payload of a param_guard node.
Template(refs) == [kind |-> "template", refs |-> refs]

PlainInput == Template({})

\* An input whose references lie inside a list or dict value, not in a
\* top-level string.
Nested(refs) == [kind |-> "nested", refs |-> refs]

FromGuard(g) == [kind |-> "from_guard", guard |-> g]

GuardPayload(sources, target, tool, template) ==
    [kind |-> "guard", source_nodes |-> sources, target_node |-> target,
     target_tool |-> tool, target_input_template |-> template]

PairsOf(N) == {e \in N \X N : e[1] # e[2]}

Acyclic(E, N) == \A n \in N : n \notin ReachFrom(E, {e[2] : e \in {x \in E : x[1] = n}})

DagEdgeSets(N) ==
    {E \in SUBSET PairsOf(N) : Cardinality(E) <= MaxEdges /\ Acyclic(E, N)}

\* null_source: the nodes whose source hint is null; the other nodes name
\* their edge predecessors, or themselves when they have none.
MkExecIR(N, E, kind, null_source) ==
    LET preds(n) == {e[1] : e \in {x \in E : x[2] = n}}
        succs(n) == {e[2] : e \in {x \in E : x[1] = n}}
    IN  [nodes |-> [n \in N |->
            [executor |-> kind[n],
             tool_name |-> IF kind[n] = "llm" THEN None ELSE "make_excel",
             source |-> IF n \in null_source THEN NullHint
                        ELSE IF preds(n) = {} THEN ListHint(<<n>>)
                        ELSE ListHint(SeqOf(preds(n))),
             target |-> ListHint(SeqOf(succs(n))),
             input |-> IF kind[n] = "param_guard"
                       THEN GuardPayload(SeqOf(preds(n)),
                                IF succs(n) = {} THEN None
                                ELSE SeqOf(succs(n))[1],
                                "make_excel", PlainInput)
                       ELSE PlainInput,
             output |-> "text"]],
         edges |-> EdgeSeqOf(E),
         order |-> SeqOf(N)]

KindsOf(N) ==
    {k \in [N -> {"llm", "tool", "param_guard"}] :
        \A n \in N : (k[n] = "param_guard") <=> (n \in GuardIds)}

ExecIRs ==
    UNION {UNION {{ir \in {MkExecIR(N, E, k, ns) : k \in KindsOf(N), ns \in SUBSET N} :
                        IsValid(ir)} : E \in DagEdgeSets(N)} :
                N \in (SUBSET NodeIds) \ {{}}}

-----------------------------------------------------------------------------
(* State reducers of WorkflowState.                                        *)

\* A reducer that keeps the existing dict and drops the update.
merge_outputs_keep_existing(existing, new) == existing

merge_outputs(existing, new) ==
    [k \in Keys(existing) \cup Keys(new) |->
        IF k \in Keys(new) THEN new[k] ELSE existing[k]]

\* f"{existing}; {new}": a None `new` is formatted as the text "None".
merge_errors(existing, new) ==
    IF existing = NoError THEN new
    ELSE existing \o (IF new = NoError THEN <<"None">> ELSE new)

\* str(e) of the exception node n fails with.
ErrText(n) == <<n>>

-----------------------------------------------------------------------------
(* Node functions.                                                         *)

DependenciesReadyAny(n, outs) ==
    \/ node_dependencies[n] = {}
    \/ \E dep \in node_dependencies[n] : dep \in Keys(outs)

DependenciesReady(n, outs) ==
    \A dep \in node_dependencies[n] : dep \in Keys(outs)

ShouldExecuteNodeAgain(n, outs) == DependenciesReady(n, outs)

ShouldExecuteNode(n, outs) ==
    IF n \in completed_nodes THEN FALSE ELSE DependenciesReady(n, outs)

MarkNodeCompletedLost(n) == completed_nodes

MarkNodeCompleted(n) == completed_nodes \cup {n}

TraceEntry(n, status) == [node_id |-> n, status |-> status]

\* payload.source_nodes[0], else payload.source_node (absent here).
GuardSourceNode(n) ==
    LET source_nodes == workflow_ir.nodes[n].input.source_nodes
    IN  IF source_nodes # <<>> THEN source_nodes[1] ELSE None

GuardUpstream(n, outs) ==
    IF GuardSourceNode(n) \in Keys(outs) THEN outs[GuardSourceNode(n)] ELSE None

\* How the body of a node function can end.
\*   success      the call returned and everything after it ran
\*   raise        an exception before state["outputs"][id] is assigned
\*   store_raise  tool node only: the result is assigned to state["outputs"]
\*                and truncate_output(result) then raises (json.dumps
\*                TypeError on an unserialisable dict or list)
\*   escape       guard node only: the upstream output is unserialisable, so
\*                the try block raises and the except block, which truncates
\*                the same value, raises again out of the node function
NodeOutcomes(n, outs) ==
    CASE workflow_ir.nodes[n].executor = "tool" -> {"success", "raise", "store_raise"}
      [] workflow_ir.nodes[n].executor = "llm" -> {"success", "raise"}
      [] workflow_ir.nodes[n].executor = "param_guard" ->
            IF GuardUpstream(n, outs) = "unserializable"
            THEN {"escape"} ELSE {"success", "raise"}

ExecuteCatchReraise(msg) == [pc |-> "raised", result |-> [exception |-> msg]]

\* execute(): except Exception as e: return {"error": str(e), "outputs": {}}
ExecuteCatch(msg) ==
    [pc |-> "returned", result |-> [error |-> msg, outputs |-> EmptyDict]]

\* execute(): the statements outside the try block.
ExecuteUncaught(msg) == [pc |-> "raised", result |-> [exception |-> msg]]

-----------------------------------------------------------------------------
(* Graph2Workflow.execute                                                  *)

ToolNodes(ir) == {n \in NodeSet(ir) : ir.nodes[n].executor = "tool"}

\* not n.source or n.source == "null"
StartNodes(ir) == {n \in NodeSet(ir) : AsIdList(ir.nodes[n].source) = <<>>}

\* not n.target or n.target == "null": the nodes build_graph connects to END
EndNodes(ir) == {n \in NodeSet(ir) : AsIdList(ir.nodes[n].target) = <<>>}

BuildDependencies(ir) ==
    [n \in NodeSet(ir) |->
        {e[1] : e \in {x \in EdgeSet(ir) : x[1] \in NodeSet(ir) /\ x[2] = n}}]

\* The edges build_graph adds, __START__ fan-out included.
GraphEdges(ir) ==
    {e \in EdgeSet(ir) : e[1] \in NodeSet(ir) /\ e[2] \in NodeSet(ir)}
    \cup (IF Cardinality(StartNodes(ir)) > 1
          THEN {<<START, n>> : n \in StartNodes(ir)} ELSE {})

EntryTasks(ir) ==
    IF Cardinality(StartNodes(ir)) > 1 THEN {START} ELSE StartNodes(ir)

NoIR == [nodes |-> EmptyDict, edges |-> <<>>, order |-> <<>>]

\* The executor's fields after __init__.
ExecFresh ==
    /\ execution_trace = <<>>
    /\ completed_nodes = {}
    /\ node_dependencies = [n \in {} |-> {}]
    /\ outputs = EmptyDict
    /\ error = NoError
    /\ tasks = {}
    /\ returned = EmptyDict
    /\ result = [exception |-> NoError]
    /\ output_writes = <<>>
    /\ invocations = [n \in AllNodeIds |-> 0]

\* last_run as plan() resets it (the fields the pipeline writes afterwards);
\* NoIR stands for the None of workflow_ir.
FreshLastRun ==
    [raw_json |-> None, fixed_json |-> None, workflow_ir |-> NoIR,
     error |-> None, error_stage |-> None, fix_attempts |-> <<>>]

\* SubtaskPlanner() before any call of plan.
PlanFresh ==
    /\ plan_calls = 0
    /\ last_run = EmptyDict
    /\ raw_json = None
    /\ attempt = 0
    /\ fix_calls = 0
    /\ build_input = NoIR
    /\ plan_result = NoIR

PlanIdle ==
    /\ plan_pc = "idle"
    /\ max_fix_attempts = 3
    /\ PlanFresh

\* Stand-ins, among dict values, for an absent dict and for a str value.
Absent == [__absent__ |-> "None"]

NotADict == [__str__ |-> "text"]

OvIdle ==
    /\ ov_pc = "idle"
    /\ ov_node = Absent
    /\ ov_overrides = Absent
    /\ ov_outputs = EmptyDict
    /\ ov_guarded = Absent
    /\ ov_tool_input = Absent

NodeIdle ==
    /\ tools = {}
    /\ mcp_tools = {}
    /\ calls = <<>>

ExtIdle ==
    /\ ext_json = <<>>
    /\ ext_content = <<>>
    /\ ext_done = FALSE
    /\ ext_result = [ok |-> FALSE, text |-> <<>>]

RtIdle ==
    /\ retriever_mode = "bm25"
    /\ tools_data = <<>>
    /\ pinned_tools = <<>>
    /\ rt_scores = <<>>
    /\ rt_top_k = 0
    /\ rt_done = FALSE
    /\ rt_ranked = <<>>
    /\ rt_result = <<>>

CtxIdle ==
    /\ ctx_node_dependencies = <<>>
    /\ ctx_broadcast_callback = FALSE
    /\ ctx_execution_trace = <<>>
    /\ ctx_completed_nodes = {}
    /\ state_outputs = <<>>
    /\ state_error = <<>>
    /\ ctx_executions = <<>>
    /\ broadcasts = <<>>

McpIdle ==
    /\ connections = <<>>
    /\ created_connections = <<>>
    /\ thread_op = <<>>
    /\ thread_pc = <<>>
    /\ thread_connection = <<>>
    /\ tool_calls = <<>>

MrgIdle ==
    /\ merge_errors_args = <<>>
    /\ merge_tasks_args = <<>>
    /\ merge_done = FALSE
    /\ merge_results = <<>>

ScanIdle ==
    /\ scan_content = <<>>
    /\ scan = <<>>
    /\ scan_done = FALSE
    /\ scan_result = <<>>
    /\ scan_starts = <<>>

NoResult == [is_valid |-> FALSE, errors |-> <<>>, warnings |-> <<>>]

ValIdle ==
    /\ val_ir = NoIR
    /\ val_done = FALSE
    /\ val_result = NoResult

InjIdle ==
    /\ inj_ir = NoIR
    /\ inj_done = FALSE
    /\ inj_out = NoIR
    /\ inj_twice = FALSE
    /\ inj_out2 = NoIR
    /\ planner_done = FALSE
    /\ planner_out = NoIR

ExecInit ==
    /\ workflow_ir \in ExecIRs
    /\ pc = "constructed"
    /\ ExecFresh
    /\ InjIdle
    /\ ValIdle
    /\ PlanIdle
    /\ OvIdle
    /\ NodeIdle
    /\ ExtIdle
    /\ RtIdle
    /\ CtxIdle
    /\ McpIdle
    /\ MrgIdle
    /\ ScanIdle

\* execute(), up to prepare_tools: _ensure_server raises MCPManagerError when
\* a server of a tool node has no configuration or does not start in time.
PrepareTools ==
    /\ pc = "constructed"
    /\ execution_trace' = <<>>
    /\ completed_nodes' = {}
    /\ \E mcp \in {"absent", "ready", "broken"} :
          IF mcp = "broken" /\ ToolNodes(workflow_ir) # {}
          THEN /\ pc' = ExecuteUncaught(<<"MCPManagerError">>).pc
               /\ result' = ExecuteUncaught(<<"MCPManagerError">>).result
          ELSE /\ pc' = "prepared"
               /\ result' = result
    /\ UNCHANGED <<workflow_ir, node_dependencies, outputs, error, tasks,
                   returned, output_writes, invocations>>
    /\ UNCHANGED not_exec_vars

\* build_graph() and graph.compile(): compile rejects a graph without entry
\* point; then the initial state is made and app.invoke starts.
BuildAndCompile ==
    /\ pc = "prepared"
    /\ node_dependencies' = BuildDependencies(workflow_ir)
    /\ IF StartNodes(workflow_ir) = {}
       THEN /\ pc' = ExecuteUncaught(<<"ValueError">>).pc
            /\ result' = ExecuteUncaught(<<"ValueError">>).result
            /\ UNCHANGED <<tasks, outputs, error>>
       ELSE /\ pc' = "running"
            /\ result' = result
            /\ tasks' = EntryTasks(workflow_ir)
            /\ outputs' = EmptyDict
            /\ error' = NoError
    /\ returned' = EmptyDict
    /\ UNCHANGED <<workflow_ir, execution_trace, completed_nodes, output_writes,
                   invocations>>
    /\ UNCHANGED not_exec_vars

\* start_node_func: return state
RunStartNode ==
    /\ pc = "running"
    /\ START \in tasks \ Keys(returned)
    /\ returned' = returned @@ (START :> error)
    /\ UNCHANGED <<workflow_ir, pc, execution_trace, completed_nodes,
                   node_dependencies, outputs, error, tasks, result, output_writes,
                   invocations>>
    /\ UNCHANGED not_exec_vars

\* tool_node / llm_node / guard_node invoked while _should_execute_node is
\* false: return state
SkipNode(n) ==
    /\ pc = "running"
    /\ n \in (tasks \ {START}) \ Keys(returned)
    /\ ~ShouldExecuteNode(n, outputs)
    /\ returned' = returned @@ (n :> error)
    /\ invocations' = [invocations EXCEPT ![n] = @ + 1]
    /\ UNCHANGED <<workflow_ir, pc, execution_trace, completed_nodes,
                   node_dependencies, outputs, error, tasks, result, output_writes>>
    /\ UNCHANGED not_exec_vars

\* tool_node / llm_node / guard_node, the whole function body.
ExecuteNode(n) ==
    /\ pc = "running"
    /\ n \in (tasks \ {START}) \ Keys(returned)
    /\ ShouldExecuteNode(n, outputs)
    /\ invocations' = [invocations EXCEPT ![n] = @ + 1]
    /\ \E outcome \in NodeOutcomes(n, outputs) :
          CASE outcome = "success" ->
                  /\ outputs' = merge_outputs(outputs, n :> "json")
                  /\ output_writes' = Append(output_writes, [writer |-> n, key |-> n])
                  /\ execution_trace' = Append(execution_trace, TraceEntry(n, "success"))
                  /\ completed_nodes' = MarkNodeCompleted(n)
                  /\ returned' = returned @@ (n :> error)
                  /\ UNCHANGED <<pc, result>>
            [] outcome = "raise" ->
                  /\ execution_trace' = Append(execution_trace, TraceEntry(n, "failed"))
                  /\ completed_nodes' = MarkNodeCompleted(n)
                  /\ returned' = returned @@ (n :> ErrText(n))
                  /\ UNCHANGED <<pc, result, outputs, output_writes>>
            [] outcome = "store_raise" ->
                  /\ outputs' = merge_outputs(outputs, n :> "unserializable")
                  /\ output_writes' = Append(output_writes, [writer |-> n, key |-> n])
                  /\ execution_trace' = Append(execution_trace, TraceEntry(n, "failed"))
                  /\ completed_nodes' = MarkNodeCompleted(n)
                  /\ returned' = returned @@ (n :> ErrText(n))
                  /\ UNCHANGED <<pc, result>>
            [] outcome = "escape" ->
                  /\ pc' = ExecuteCatch(ErrText(n)).pc
                  /\ result' = ExecuteCatch(ErrText(n)).result
                  /\ UNCHANGED <<outputs, output_writes, execution_trace,
                                 completed_nodes, returned>>
    /\ UNCHANGED <<workflow_ir, node_dependencies, error, tasks>>
    /\ UNCHANGED not_exec_vars

\* The scheduler applies the writes of a superstep in the order of the task
\* names.
TaskOrder == <<"GUARD1", "GUARD2", "GUARD3", "GUARD4", "ST1", "ST2", "ST3", "ST9", "__START__">>

WriteOrder(S) == SelectSeq(TaskOrder, LAMBDA x : x \in S)

RECURSIVE FoldErrors(_, _, _)
FoldErrors(acc, order, rets) ==
    IF order = <<>> THEN acc
    ELSE FoldErrors(merge_errors(acc, rets[Head(order)]), Tail(order), rets)

RECURSIVE FoldOutputs(_, _, _)
FoldOutputs(acc, order, outs) ==
    IF order = <<>> THEN acc
    ELSE FoldOutputs(merge_outputs(acc, outs), Tail(order), outs)

NextTasks(ir, ran) == {e[2] : e \in {x \in GraphEdges(ir) : x[1] \in ran}}

\* app.invoke, the end of a superstep: every returned state is merged into
\* the channels through the reducers, the successors of the nodes that ran
\* are scheduled; with nothing scheduled invoke returns the final state.
EndSuperstep ==
    /\ pc = "running"
    /\ tasks # {}
    /\ Keys(returned) = tasks
    /\ error' = FoldErrors(error, WriteOrder(tasks), returned)
    /\ outputs' = FoldOutputs(outputs, WriteOrder(tasks), outputs)
    /\ tasks' = NextTasks(workflow_ir, tasks)
    /\ returned' = EmptyDict
    /\ IF tasks' = {}
       THEN /\ pc' = "returned"
            /\ result' = [error |-> error', outputs |-> outputs']
       ELSE UNCHANGED <<pc, result>>
    /\ UNCHANGED <<workflow_ir, execution_trace, completed_nodes,
                   node_dependencies, output_writes, invocations>>
    /\ UNCHANGED not_exec_vars

ExecNext ==
    \/ PrepareTools
    \/ BuildAndCompile
    \/ RunStartNode
    \/ \E n \in NodeIds : SkipNode(n)
    \/ \E n \in NodeIds : ExecuteNode(n)
    \/ EndSuperstep

Init == ExecInit

Next == ExecNext

Spec == Init /\ [][Next]_vars

-----------------------------------------------------------------------------
(* Guard injection: GuardInjector.inject and the planner's own             *)
(* SubtaskPlanner._inject_param_guard_nodes, both run on the same IR.      *)

\* The injectors are run on IRs over InjNodeSets with at most MaxInjEdges
\* edges; an edge may start at "ST9", which is never a node.  An IR may
\* already hold a guard, numbered densely or not.
InjNodeSets ==
    {{"ST1", "ST2"}, {"ST1", "ST2", "ST3"}, {"ST1", "ST2", "GUARD1"},
     {"ST1", "GUARD2"}}
MaxInjEdges == 2

\* A reference {<node>.output<path>} inside an input value.
Ref(n, path) == [node |-> n, path |-> path]

\* executor and input of a node: an llm node referencing {ST1.output}, a tool
\* node referencing {ST1.output}, and a tool node referencing {ST1.output.days}.
NodeShapes ==
    {[executor |-> "llm", input |-> Template({Ref("ST1", "")})],
     [executor |-> "tool", input |-> Template({Ref("ST1", "")})],
     [executor |-> "tool", input |-> Template({Ref("ST1", ".days")})]}

\* A param_guard node; MkInjIR fills its payload from the edges.
GuardShape == [executor |-> "param_guard", input |-> PlainInput]

\* The nodes with a GUARD id are param_guard nodes, the others are not.
InjShapes(N) ==
    {shape \in [N -> NodeShapes \cup {GuardShape}] :
        \A n \in N : (shape[n] = GuardShape) <=> (n \in GuardIds)}

InjPairs(N) == {e \in (N \cup {"ST9"}) \X N : e[1] # e[2]}

EdgeSeqs(P) == UNION {[1..k -> P] : k \in 0..MaxInjEdges}

\* style: whether the planner wrote the hints as single ids or as lists.
HintOf(ids, style) ==
    IF ids = <<>> THEN NullHint
    ELSE IF style = "str" THEN StrHint(ids[1]) ELSE ListHint(ids)

\* The planner lists the nodes in id order or in the reverse of it.
Reverse(s) == [i \in DOMAIN s |-> s[Len(s) + 1 - i]]

InputOrders(N) == {SeqOf(N), Reverse(SeqOf(N))}

MkInjIR(N, shape, edges, style, order) ==
    LET preds(n) == {e[1] : e \in {x \in Range(edges) : x[2] = n /\ x[1] \in N}}
        succs(n) == {e[2] : e \in {x \in Range(edges) : x[1] = n}}
    IN  [nodes |-> [n \in N |->
            [executor |-> shape[n].executor,
             tool_name |-> IF shape[n].executor = "tool" THEN "make_excel" ELSE None,
             source |-> HintOf(SeqOf(preds(n)), style),
             target |-> HintOf(SeqOf(succs(n)), style),
             input |-> IF shape[n].executor = "param_guard"
                       THEN GuardPayload(SeqOf(preds(n)),
                                IF succs(n) = {} THEN None ELSE SeqOf(succs(n))[1],
                                "make_excel", PlainInput)
                       ELSE shape[n].input,
             output |-> "text"]],
         edges |-> edges,
         order |-> order]

NeedsParamGuardAnyInput(node) == node.executor = "tool"

\* re.search(r"\{ST\d+\.output\}", json.dumps(input)) on a tool node
NeedsParamGuard(node) ==
    IF node.executor # "tool" THEN FALSE
    ELSE /\ node.input.kind = "template"
         /\ \E r \in node.input.refs : r.node \in STIds /\ r.path = ""

ExtractGuardIdx(n) == IF n \in GuardIds THEN IdNum(n) ELSE 0

ExtractIdx(n) == IF n \in STIds THEN IdNum(n) ELSE 0

\* _sort_key: (1, guard index) for GUARD ids, (0, ST index) for the others
SortKey(n) == IF n \in GuardIds THEN <<1, ExtractGuardIdx(n)>> ELSE <<0, ExtractIdx(n)>>

KeyLeq(a, b) == a[1] < b[1] \/ (a[1] = b[1] /\ a[2] <= b[2])

\* sorted(..., key=_sort_key): stable
RECURSIVE InsertByKey(_, _)
InsertByKey(sorted, n) ==
    IF sorted = <<>> THEN <<n>>
    ELSE IF KeyLeq(SortKey(Head(sorted)), SortKey(n))
         THEN <<Head(sorted)>> \o InsertByKey(Tail(sorted), n)
         ELSE <<n>> \o sorted

KeepOrder(ids) == ids

RECURSIVE SortNodes(_)
SortNodes(ids) ==
    IF ids = <<>> THEN <<>>
    ELSE InsertByKey(SortNodes(SubSeq(ids, 1, Len(ids) - 1)), ids[Len(ids)])

GuardIdOf(k) == CHOOSE g \in GuardIds : IdNum(g) = k

NextGuardIdx(ir) ==
    LET idx == {ExtractGuardIdx(n) : n \in NodeSet(ir)} \cup {0}
    IN  (CHOOSE m \in idx : \A x \in idx : x <= m) + 1

\* source_node and target_node and _needs_param_guard(target_node)
EdgeTriggers(ir, e) ==
    /\ e[1] \in NodeSet(ir)
    /\ e[2] \in NodeSet(ir)
    /\ NeedsParamGuard(ir.nodes[e[2]])

\* target_guards_map: its keys in insertion order, and the source ids per key.
GuardTargets(ir) ==
    LET trig == SelectSeq(ir.edges, LAMBDA e : EdgeTriggers(ir, e))
    IN  Dedup([i \in DOMAIN trig |-> trig[i][2]])

GuardSources(ir, t) ==
    LET trig == SelectSeq(ir.edges, LAMBDA e : EdgeTriggers(ir, e) /\ e[2] = t)
    IN  [i \in DOMAIN trig |-> trig[i][1]]

\* guard_id = f"GUARD{next_guard_idx}"; next_guard_idx += 1
GuardFor(ir, t) ==
    LET pos == CHOOSE i \in DOMAIN GuardTargets(ir) : GuardTargets(ir)[i] = t
    IN  GuardIdOf(NextGuardIdx(ir) + pos - 1)

\* Only the edge from each guard to its target.
RECURSIVE GuardEdgesWithoutSources(_, _)
GuardEdgesWithoutSources(ir, targets) ==
    IF targets = <<>> THEN <<>>
    ELSE <<<<GuardFor(ir, Head(targets)), Head(targets)>>>>
            \o GuardEdgesWithoutSources(ir, Tail(targets))

RECURSIVE GuardEdges(_, _)
GuardEdges(ir, targets) ==
    IF targets = <<>> THEN <<>>
    ELSE LET t == Head(targets)
             g == GuardFor(ir, t)
             srcs == GuardSources(ir, t)
         IN  [i \in DOMAIN srcs |-> <<srcs[i], g>>] \o <<<<g, t>>>>
                 \o GuardEdges(ir, Tail(targets))

\* _replace_id(value, old_id, new_id), for every guard inserted behind u
ReplaceId(value, old_id, new_id) ==
    IF AsIdList(value) = <<>> THEN value
    ELSE [form |-> "list",
          ids |-> [i \in DOMAIN AsIdList(value) |->
                     IF AsIdList(value)[i] = old_id THEN new_id
                     ELSE AsIdList(value)[i]]]

RECURSIVE ReplaceTargetsEverywhere(_, _, _, _)
ReplaceTargetsEverywhere(ir, u, value, targets) ==
    IF targets = <<>> THEN value
    ELSE ReplaceTargetsEverywhere(ir, u,
            ReplaceId(value, Head(targets), GuardFor(ir, Head(targets))),
            Tail(targets))

RECURSIVE ReplaceTargets(_, _, _, _)
ReplaceTargets(ir, u, value, targets) ==
    IF targets = <<>> THEN value
    ELSE ReplaceTargets(ir, u,
            IF u \in Range(GuardSources(ir, Head(targets)))
            THEN ReplaceId(value, Head(targets), GuardFor(ir, Head(targets)))
            ELSE value,
            Tail(targets))

\* if node_data_map[source_id].get("target") == target_id: ... = guard_id
RECURSIVE PlannerReplaceTargets(_, _, _, _)
PlannerReplaceTargets(ir, u, value, targets) ==
    IF targets = <<>> THEN value
    ELSE PlannerReplaceTargets(ir, u,
            IF /\ u \in Range(GuardSources(ir, Head(targets)))
               /\ value = StrHint(Head(targets))
            THEN StrHint(GuardFor(ir, Head(targets)))
            ELSE value,
            Tail(targets))

CreateGuardNode(ir, t, source_hint, target_hint) ==
    [executor |-> "param_guard",
     tool_name |-> ir.nodes[t].tool_name,
     source |-> source_hint,
     target |-> target_hint,
     input |-> GuardPayload(GuardSources(ir, t), t, ir.nodes[t].tool_name,
                            ir.nodes[t].input),
     output |-> "text"]

NewGuards(ir) == {GuardFor(ir, t) : t \in Range(GuardTargets(ir))}

\* node_data_map keeps insertion order: the input nodes, then the guards.
SortedNodes(ir) ==
    SortNodes(ir.order \o [i \in DOMAIN GuardTargets(ir) |->
                              GuardFor(ir, GuardTargets(ir)[i])])

TargetOfGuard(ir, g) == CHOOSE t \in Range(GuardTargets(ir)) : GuardFor(ir, t) = g

\* GuardInjector.inject
Inject(ir) ==
    LET targets == GuardTargets(ir)
    IN  [nodes |->
            [n \in NodeSet(ir) \cup NewGuards(ir) |->
                IF n \notin NodeSet(ir)
                THEN CreateGuardNode(ir, TargetOfGuard(ir, n),
                        ListHint(GuardSources(ir, TargetOfGuard(ir, n))),
                        ListHint(<<TargetOfGuard(ir, n)>>))
                ELSE IF n \in Range(targets)
                THEN [ir.nodes[n] EXCEPT
                        !.target = ReplaceTargets(ir, n, @, targets),
                        !.input = FromGuard(GuardFor(ir, n)),
                        !.source = ListHint(<<GuardFor(ir, n)>>)]
                ELSE [ir.nodes[n] EXCEPT
                        !.target = ReplaceTargets(ir, n, @, targets)]],
         edges |-> SelectSeq(ir.edges, LAMBDA e : e[2] \notin Range(targets))
                      \o GuardEdges(ir, targets),
         order |-> SortedNodes(ir)]

\* SubtaskPlanner._inject_param_guard_nodes
InjectParamGuardNodes(ir) ==
    LET targets == GuardTargets(ir)
    IN  [nodes |->
            [n \in NodeSet(ir) \cup NewGuards(ir) |->
                IF n \notin NodeSet(ir)
                THEN CreateGuardNode(ir, TargetOfGuard(ir, n),
                        StrHint(GuardSources(ir, TargetOfGuard(ir, n))[1]),
                        StrHint(TargetOfGuard(ir, n)))
                ELSE IF n \in Range(targets)
                THEN [ir.nodes[n] EXCEPT
                        !.target = PlannerReplaceTargets(ir, n, @, targets),
                        !.input = FromGuard(GuardFor(ir, n)),
                        !.source = StrHint(GuardFor(ir, n))]
                ELSE [ir.nodes[n] EXCEPT
                        !.target = PlannerReplaceTargets(ir, n, @, targets)]],
         edges |-> SelectSeq(ir.edges, LAMBDA e : ~EdgeTriggers(ir, e))
                      \o GuardEdges(ir, targets),
         order |-> SortedNodes(ir)]

ExecIdle ==
    /\ workflow_ir = NoIR
    /\ pc = "idle"
    /\ ExecFresh

InjInit ==
    /\ \E N \in InjNodeSets :
          \E shape \in InjShapes(N), edges \in EdgeSeqs(InjPairs(N)),
             style \in {"str", "list"}, order \in InputOrders(N) :
              inj_ir = MkInjIR(N, shape, edges, style, order)
    /\ inj_done = FALSE
    /\ inj_out = NoIR
    /\ inj_twice = FALSE
    /\ inj_out2 = NoIR
    /\ planner_done = FALSE
    /\ planner_out = NoIR
    /\ ExecIdle
    /\ ValIdle
    /\ PlanIdle
    /\ OvIdle
    /\ NodeIdle
    /\ ExtIdle
    /\ RtIdle
    /\ CtxIdle
    /\ McpIdle
    /\ MrgIdle
    /\ ScanIdle

\* An IR is handed to one of the two injectors.
RunInject ==
    /\ ~inj_done
    /\ ~planner_done
    /\ inj_done' = TRUE
    /\ inj_out' = Inject(inj_ir)
    /\ UNCHANGED <<inj_ir, inj_twice, inj_out2, planner_done, planner_out>>
    /\ UNCHANGED not_inj_vars

\* inject(inject(workflow_ir))
RunInjectAgain ==
    /\ inj_done
    /\ ~inj_twice
    /\ inj_twice' = TRUE
    /\ inj_out2' = Inject(inj_out)
    /\ UNCHANGED <<inj_ir, inj_done, inj_out, planner_done, planner_out>>
    /\ UNCHANGED not_inj_vars

RunInjectParamGuardNodes ==
    /\ ~planner_done
    /\ ~inj_done
    /\ planner_done' = TRUE
    /\ planner_out' = InjectParamGuardNodes(inj_ir)
    /\ UNCHANGED <<inj_ir, inj_done, inj_out, inj_twice, inj_out2>>
    /\ UNCHANGED not_inj_vars

InjNext == RunInject \/ RunInjectAgain \/ RunInjectParamGuardNodes

SpecInject == InjInit /\ [][InjNext]_vars

-----------------------------------------------------------------------------
(* GraphValidator.validate on the IRs a planner answer can parse into:     *)
(* well-formed ones and ones with a structural flaw.                       *)

MaxValEdges == 2

\* The tool names the planner passes as available_tools.
AvailableTools == {"make_excel"}

\* The node lists: in order, reversed, with a repeated id, with a gap in the
\* numbering, with guards, with an id of another format, and empty.
ValNodeLists ==
    {<<>>, <<"ST1">>, <<"ST1", "ST2">>, <<"ST2", "ST1">>, <<"ST1", "ST1">>,
     <<"ST1", "ST3">>, <<"ST1", "GUARD1">>, <<"ST1", "GUARD2">>,
     <<"ST1", "task1">>, <<"ST1", "ST2", "ST3">>}

ValPairs(order) == (Range(order) \cup {"ST9"}) \X (Range(order) \cup {"ST9"})

ValEdgeSeqs(P) == UNION {[1..k -> P] : k \in 0..MaxValEdges}

\* What the planner wrote into one node besides its id.
NodeFlaws ==
    {"none", "tool", "tool_without_name", "tool_unknown", "ref_self",
     "ref_missing", "ref_first", "ref_self_path", "ref_missing_path",
     "ref_first_path", "ref_self_nested", "ref_missing_nested", "no_input",
     "no_output", "no_hints", "hint_first"}

\* Every node is an llm node whose hints follow the edges, except the last
\* node of the list, which carries `flaw`.
MkValIR(order, edges, flaw) ==
    LET at == IF order = <<>> THEN None ELSE order[Len(order)]
        preds(n) == {e[1] : e \in {x \in Range(edges) : x[2] = n}}
        succs(n) == {e[2] : e \in {x \in Range(edges) : x[1] = n}}
        is(n, f) == n = at /\ flaw = f
        hint(ids) == ListHint(SelectSeq(RefOrder, LAMBDA x : x \in ids))
    IN  [nodes |-> [n \in Range(order) |->
            [executor |-> IF n = at /\ flaw \in {"tool", "tool_without_name",
                                                 "tool_unknown"}
                          THEN "tool" ELSE "llm",
             tool_name |-> IF is(n, "tool") THEN "make_excel"
                           ELSE IF is(n, "tool_unknown") THEN "no_such_tool"
                           ELSE None,
             source |-> IF is(n, "no_hints") THEN NullHint
                        ELSE IF is(n, "hint_first") THEN StrHint(order[1])
                        ELSE hint(preds(n)),
             target |-> IF is(n, "no_hints") THEN NullHint ELSE hint(succs(n)),
             input |-> IF is(n, "no_input") THEN [kind |-> "none"]
                       ELSE IF is(n, "ref_self") THEN Template({Ref(n, "")})
                       ELSE IF is(n, "ref_missing") THEN Template({Ref("ST9", "")})
                       ELSE IF is(n, "ref_first") THEN Template({Ref(order[1], "")})
                       ELSE IF is(n, "ref_self_path") THEN Template({Ref(n, ".days")})
                       ELSE IF is(n, "ref_missing_path")
                       THEN Template({Ref("ST9", ".days")})
                       ELSE IF is(n, "ref_first_path")
                       THEN Template({Ref(order[1], ".days")})
                       ELSE IF is(n, "ref_self_nested") THEN Nested({Ref(n, "")})
                       ELSE IF is(n, "ref_missing_nested") THEN Nested({Ref("ST9", "")})
                       ELSE PlainInput,
             output |-> IF is(n, "no_output") THEN None ELSE "text"]],
         edges |-> edges,
         order |-> order]

ValInit ==
    /\ \E order \in ValNodeLists :
          \E edges \in ValEdgeSeqs(ValPairs(order)), flaw \in NodeFlaws :
              val_ir = MkValIR(order, edges, flaw)
    /\ val_done = FALSE
    /\ val_result = NoResult
    /\ ExecIdle
    /\ InjIdle
    /\ PlanIdle
    /\ OvIdle
    /\ NodeIdle
    /\ ExtIdle
    /\ RtIdle
    /\ CtxIdle
    /\ McpIdle
    /\ MrgIdle
    /\ ScanIdle

\* validate_workflow_ir(workflow_ir, available_tools)
RunValidate ==
    /\ ~val_done
    /\ val_done' = TRUE
    /\ val_result' = Validate(val_ir, AvailableTools)
    /\ UNCHANGED val_ir
    /\ UNCHANGED not_val_vars

ValNext == RunValidate

SpecValidate == ValInit /\ [][ValNext]_vars

-----------------------------------------------------------------------------
(* SubtaskPlanner.plan: generate the JSON, repair it, build the IR.        *)

MaxPlanCalls == 2
MaxFixSetting == 4

\* for attempt in range(1, 4)
LoopAttempts == 3

\* What the LLM may answer: text holding no JSON, a JSON object whose nodes
\* list is empty, and four workflows.
BrokenAnswers == {"no_json", "empty_nodes"}

WorkflowAnswers == {"plain", "trigger", "cyclic", "list_hints"}

Answers == BrokenAnswers \cup WorkflowAnswers

\* str(e) of an exception of the LLM client; some exceptions have no text.
ClientErrors == {"connection error", ""}

\* json.loads and the structural checks of _auto_fix_json succeed.
ParsesAndHasShape(answer) == answer \in WorkflowAnswers

\* The workflow an answer describes: ST1 feeds ST2, which is an llm node
\* ("plain", "cyclic", "list_hints") or a tool node reading {ST1.output}.
AnswerIR(answer) ==
    MkInjIR({"ST1", "ST2"},
            [n \in {"ST1", "ST2"} |->
                IF n = "ST1" THEN [executor |-> "llm", input |-> PlainInput]
                ELSE [executor |-> IF answer = "trigger" THEN "tool" ELSE "llm",
                      input |-> Template({Ref("ST1", "")})]],
            IF answer = "cyclic"
            THEN <<<<"ST1", "ST2">>, <<"ST2", "ST1">>>> ELSE <<<<"ST1", "ST2">>>>,
            IF answer = "list_hints" THEN "list" ELSE "str",
            <<"ST1", "ST2">>)

\* Subtask(**n): source and target are Optional[str], a list is rejected.
Materializes(ir) ==
    \A n \in NodeSet(ir) : ir.nodes[n].source.form # "list" /\ ir.nodes[n].target.form # "list"

BuildWorkflowIRUnchecked(fixed_json) ==
    IF ~Materializes(AnswerIR(fixed_json))
    THEN [ok |-> FALSE, message |-> "pydantic validation failed"]
    ELSE [ok |-> TRUE, ir |-> InjectParamGuardNodes(AnswerIR(fixed_json))]

\* _build_workflow_ir: the IR it returns or the ValueError it raises
BuildWorkflowIR(fixed_json) ==
    IF ~Materializes(AnswerIR(fixed_json))
    THEN [ok |-> FALSE, message |-> "pydantic validation failed"]
    ELSE LET ir == InjectParamGuardNodes(AnswerIR(fixed_json))
         IN  IF Validate(ir, AvailableTools).is_valid
             THEN [ok |-> TRUE, ir |-> ir]
             ELSE [ok |-> FALSE, message |-> "graph validation failed"]

AttemptEntryFromZero(n, status) == [attempt |-> n - 1, status |-> status]

\* The entry _auto_fix_json appends to last_run["fix_attempts"].
AttemptEntry(n, status) == [attempt |-> n, status |-> status]

\* An exception leaving one of the inner try blocks of plan: the inner handler
\* records it under `stage`, the outer handler under "unknown" when the
\* recorded error is empty.
RaisedInStage(lr, stage, message) ==
    IF message = ""
    THEN [lr EXCEPT !.error = message, !.error_stage = "unknown"]
    ELSE [lr EXCEPT !.error = message, !.error_stage = stage]

\* An exception of _generate_workflow_json: only the outer handler sees it.
RaisedOutside(lr, message) ==
    [lr EXCEPT !.error = message, !.error_stage = "unknown"]

PlanInit ==
    /\ plan_pc = "ready"
    /\ max_fix_attempts \in 1..MaxFixSetting
    /\ PlanFresh
    /\ ExecIdle
    /\ InjIdle
    /\ ValIdle
    /\ OvIdle
    /\ NodeIdle
    /\ ExtIdle
    /\ RtIdle
    /\ CtxIdle
    /\ McpIdle
    /\ MrgIdle
    /\ ScanIdle

\* plan(task), up to the first stage: last_run is replaced.
PlanCall ==
    /\ plan_pc \in {"ready", "returned", "raised"}
    /\ plan_calls < MaxPlanCalls
    /\ plan_calls' = plan_calls + 1
    /\ plan_pc' = "generate"
    /\ last_run' = FreshLastRun
    /\ raw_json' = None
    /\ attempt' = 0
    /\ fix_calls' = 0
    /\ build_input' = NoIR
    /\ plan_result' = NoIR
    /\ UNCHANGED max_fix_attempts
    /\ UNCHANGED not_plan_vars

\* _generate_workflow_json: the LLM client raises or answers.
GenerateWorkflowJson ==
    /\ plan_pc = "generate"
    /\ \/ \E message \in ClientErrors :
             /\ last_run' = RaisedOutside(last_run, message)
             /\ plan_pc' = "raised"
             /\ UNCHANGED <<raw_json, attempt>>
       \/ \E answer \in Answers :
             /\ raw_json' = answer
             /\ last_run' = [last_run EXCEPT !.raw_json = answer]
             /\ attempt' = 1
             /\ plan_pc' = "auto_fix"
    /\ UNCHANGED <<plan_calls, max_fix_attempts, fix_calls, build_input, plan_result>>
    /\ UNCHANGED not_plan_vars

\* One iteration of the loop of _auto_fix_json, and what follows the loop
\* when it was the last one.
AutoFixAttempt ==
    /\ plan_pc = "auto_fix"
    /\ IF ParsesAndHasShape(raw_json)
       THEN /\ last_run' = [last_run EXCEPT
                              !.fix_attempts = Append(@, AttemptEntry(attempt, "success")),
                              !.fixed_json = raw_json]
            /\ plan_pc' = "build"
            /\ UNCHANGED <<raw_json, attempt, fix_calls>>
       ELSE LET failed == [last_run EXCEPT
                              !.fix_attempts = Append(@, AttemptEntry(attempt, "failed"))]
            IN  /\ fix_calls' = fix_calls + 1
                /\ \/ \E message \in ClientErrors :
                         /\ last_run' = RaisedInStage(failed, "auto_fix_json", message)
                         /\ plan_pc' = "raised"
                         /\ UNCHANGED <<raw_json, attempt>>
                   \/ \E answer \in Answers :
                         /\ raw_json' = answer
                         /\ IF attempt < LoopAttempts
                            THEN /\ attempt' = attempt + 1
                                 /\ last_run' = failed
                                 /\ plan_pc' = "auto_fix"
                            ELSE /\ attempt' = attempt
                                 /\ last_run' = RaisedInStage(
                                        [failed EXCEPT !.error_stage = "auto_fix_json"],
                                        "auto_fix_json", "fix attempts exhausted")
                                 /\ plan_pc' = "raised"
    /\ UNCHANGED <<plan_calls, max_fix_attempts, build_input, plan_result>>
    /\ UNCHANGED not_plan_vars

\* _build_workflow_ir and the end of plan.
BuildAndReturn ==
    /\ plan_pc = "build"
    /\ build_input' = AnswerIR(last_run.fixed_json)
    /\ LET built == BuildWorkflowIR(last_run.fixed_json)
       IN  IF built.ok
           THEN /\ last_run' = [last_run EXCEPT !.workflow_ir = built.ir]
                /\ plan_result' = built.ir
                /\ plan_pc' = "returned"
           ELSE /\ last_run' = RaisedInStage(last_run, "build_workflow_ir", built.message)
                /\ plan_pc' = "raised"
                /\ UNCHANGED plan_result
    /\ UNCHANGED <<plan_calls, max_fix_attempts, raw_json, attempt, fix_calls>>
    /\ UNCHANGED not_plan_vars

PlanNext == PlanCall \/ GenerateWorkflowJson \/ AutoFixAttempt \/ BuildAndReturn

SpecPlan == PlanInit /\ [][PlanNext]_vars

-----------------------------------------------------------------------------
(* Parameter overrides: apply_param_overrides on a node, then the argument *)
(* selection of tool_node.                                                 *)

ParamKeys == {"city", "days"}

ParamValues == {"a", "b"}

\* The dicts {key: value} over ParamKeys.
ParamDicts == UNION {[K -> ParamValues] : K \in SUBSET ParamKeys}

\* d.get(k, default)
Get(d, k, default) == IF k \in Keys(d) THEN d[k] ELSE default

\* {**d, **new} and d.update(new)
DictMerge(d, new) ==
    [k \in Keys(d) \cup Keys(new) |-> IF k \in Keys(new) THEN new[k] ELSE d[k]]

\* The inputs of a node: {"__from_guard__": g}, {"__from_guards__": [...]},
\* literal parameters, and the payload of a guard.
OverrideInputs ==
    {[__from_guard__ |-> "GUARD1"],
     [__from_guards__ |-> <<"GUARD1">>],
     [__from_guards__ |-> <<"GUARD1", "GUARD2">>]}
    \cup ParamDicts
    \cup {[target_input_template |-> t] : t \in {[city |-> "a"]}}

OverrideNodes ==
    {node \in [executor : {"tool", "llm", "param_guard"}, input : OverrideInputs] :
        /\ node.executor = "param_guard" <=> "target_input_template" \in Keys(node.input)
        /\ node.executor = "llm" => node.input \in ParamDicts}

\* apply_param_overrides, for one node whose id has the entry override_params
ApplyParamOverrides(node, override_params) ==
    IF node.executor = "tool"
    THEN IF "__from_guard__" \in Keys(node.input)
         THEN [node EXCEPT !.input =
                    DictMerge(node.input, [_param_overrides |-> override_params])]
         ELSE [node EXCEPT !.input = DictMerge(node.input, override_params)]
    ELSE IF node.executor = "llm"
    THEN [node EXCEPT !.input = DictMerge(node.input, override_params)]
    ELSE [node EXCEPT !.input.target_input_template =
                DictMerge(node.input.target_input_template, override_params)]

\* tool_input.update(guard_output) for each guard id in order; "not a dict"
\* when an output is not a dict.
RECURSIVE MergeGuardOutputs(_, _, _)
MergeGuardOutputs(guard_ids, outs, tool_input) ==
    IF guard_ids = <<>> THEN tool_input
    ELSE IF Get(outs, Head(guard_ids), EmptyDict) = NotADict THEN NotADict
    ELSE MergeGuardOutputs(Tail(guard_ids), outs,
            DictMerge(tool_input, Get(outs, Head(guard_ids), EmptyDict)))

\* What the guards named by a node input give the tool.
GuardArguments(raw_input, outs) ==
    IF "__from_guard__" \in Keys(raw_input)
    THEN MergeGuardOutputs(<<raw_input["__from_guard__"]>>, outs, EmptyDict)
    ELSE MergeGuardOutputs(raw_input["__from_guards__"], outs, EmptyDict)

\* tool_node: the tool_input built from raw_input; the literal parameters of
\* the other inputs hold no placeholder, so _resolve_dependencies returns
\* them as they are.
ToolInput(raw_input, outs) ==
    IF "__from_guard__" \in Keys(raw_input) \/ "__from_guards__" \in Keys(raw_input)
    THEN IF GuardArguments(raw_input, outs) = NotADict
         THEN [exception |-> "guard output is not a dict"]
         ELSE IF "_param_overrides" \in Keys(raw_input)
         THEN DictMerge(GuardArguments(raw_input, outs), raw_input["_param_overrides"])
         ELSE GuardArguments(raw_input, outs)
    ELSE raw_input

OvInit ==
    /\ ov_pc = "planned"
    /\ ov_node \in OverrideNodes
    /\ ov_overrides \in ParamDicts \cup {Absent}
    /\ ov_outputs \in [{"GUARD1", "GUARD2"} ->
                          {[city |-> "a"], [city |-> "b", days |-> "a"], NotADict}]
    /\ ov_guarded = Absent
    /\ ov_tool_input = Absent
    /\ ExecIdle
    /\ InjIdle
    /\ ValIdle
    /\ PlanIdle
    /\ NodeIdle
    /\ ExtIdle
    /\ RtIdle
    /\ CtxIdle
    /\ McpIdle
    /\ MrgIdle
    /\ ScanIdle

\* The server applies the overrides before it hands the IR to the executor.
RunApplyParamOverrides ==
    /\ ov_pc = "planned"
    /\ ov_pc' = "overridden"
    /\ ov_guarded' = ov_node.input
    /\ ov_node' = IF ov_overrides = Absent THEN ov_node
                  ELSE ApplyParamOverrides(ov_node, ov_overrides)
    /\ UNCHANGED <<ov_overrides, ov_outputs, ov_tool_input>>
    /\ UNCHANGED not_ov_vars

\* tool_node reaches the call of the tool.
RunToolNode ==
    /\ ov_pc = "overridden"
    /\ ov_node.executor = "tool"
    /\ ov_tool_input' = ToolInput(ov_node.input, ov_outputs)
    /\ ov_pc' = IF "exception" \in Keys(ToolInput(ov_node.input, ov_outputs))
                THEN "raised" ELSE "invoked"
    /\ UNCHANGED <<ov_node, ov_overrides, ov_outputs, ov_guarded>>
    /\ UNCHANGED not_ov_vars

OvNext == RunApplyParamOverrides \/ RunToolNode

SpecOverride == OvInit /\ [][OvNext]_vars

-----------------------------------------------------------------------------
(* Python values and texts.  A str is a sequence of characters; the other  *)
(* values carry their type in the name of their single field.              *)

Str(chars) == [str |-> chars]
Num(digits) == [num |-> digits]
Bool(b) == [bool |-> b]
PyNone == [none |-> TRUE]
Dict(f) == [dict |-> f]
List(items) == [list |-> items]

IsStr(v) == DOMAIN v = {"str"}
IsDict(v) == DOMAIN v = {"dict"}
IsList(v) == DOMAIN v = {"list"}

Whitespace == {" "}
Digits == {"0", "1"}

\* s[a:b] of Python, on the 1-based positions a+1 .. b.
Slice(s, a, b) == IF b <= a THEN <<>> ELSE SubSeq(s, a + 1, b)

RECURSIVE LStrip(_)
LStrip(s) ==
    IF s # <<>> /\ Head(s) \in Whitespace THEN LStrip(Tail(s)) ELSE s

\* str.strip()
Strip(s) == Reverse(LStrip(Reverse(LStrip(s))))

\* s.startswith(word, i - 1) for the 1-based position i
MatchAt(s, i, word) ==
    /\ i + Len(word) - 1 <= Len(s)
    /\ \A k \in 1..Len(word) : s[i + k - 1] = word[k]

\* word in s
Contains(s, word) == \E i \in 1..(Len(s) + 1) : MatchAt(s, i, word)

\* str.lower() on the letters of the texts used here.
LowerChar(c) ==
    CASE c = "E" -> "e" [] c = "F" -> "f" [] c = "R" -> "r"
      [] OTHER -> c

Lower(s) == [i \in DOMAIN s |-> LowerChar(s[i])]

-----------------------------------------------------------------------------
(* json.loads on texts over the characters used here: objects, arrays,     *)
(* strings with backslash escapes, numbers without sign, fraction or       *)
(* exponent, and the literals true, false, null, NaN and Infinity.         *)

ParseFailed == [ok |-> FALSE, val |-> PyNone, next |-> 0]

Parsed(v, next) == [ok |-> TRUE, val |-> v, next |-> next]

RECURSIVE SkipWhitespace(_, _)
SkipWhitespace(s, i) ==
    IF i <= Len(s) /\ s[i] \in Whitespace THEN SkipWhitespace(s, i + 1) ELSE i

\* The characters a backslash may be followed by, and what they stand for.
Unescape(c) ==
    CASE c = "\"" -> "\"" [] c = "\\" -> "\\" [] c = "/" -> "/"
      [] c = "n" -> "\n" [] c = "t" -> "\t" [] c = "r" -> "\r" [] c = "f" -> "\f"

EscapeChars == {"\"", "\\", "/", "n", "t", "r", "f"}

\* py_scanstring: s[i - 1] is the opening quote; acc holds the characters
\* read so far.
RECURSIVE ScanString(_, _, _)
ScanString(s, i, acc) ==
    IF i > Len(s) THEN ParseFailed
    ELSE IF s[i] = "\"" THEN Parsed(Str(acc), i + 1)
    ELSE IF s[i] = "\\"
         THEN IF i + 1 <= Len(s) /\ s[i + 1] \in EscapeChars
              THEN ScanString(s, i + 2, Append(acc, Unescape(s[i + 1])))
              ELSE ParseFailed
    ELSE ScanString(s, i + 1, Append(acc, s[i]))

RECURSIVE ScanDigits(_, _)
ScanDigits(s, i) ==
    IF i <= Len(s) /\ s[i] \in Digits THEN ScanDigits(s, i + 1) ELSE i

\* NUMBER_RE: (-?(?:0|[1-9]\d*)) without sign, fraction and exponent.
ScanNumber(s, i) ==
    LET end == IF s[i] = "0" THEN i + 1 ELSE ScanDigits(s, i)
    IN  Parsed(Num(Slice(s, i - 1, end - 1)), end)

JsonLiterals ==
    {[word |-> <<"t", "r", "u", "e">>, val |-> Bool(TRUE)],
     [word |-> <<"f", "a", "l", "s", "e">>, val |-> Bool(FALSE)],
     [word |-> <<"n", "u", "l", "l">>, val |-> PyNone],
     [word |-> <<"N", "a", "N">>, val |-> Num(<<"NaN">>)],
     [word |-> <<"I", "n", "f", "i", "n", "i", "t", "y">>, val |-> Num(<<"Infinity">>)]}

RECURSIVE ScanOnce(_, _)
RECURSIVE ScanArray(_, _, _)
RECURSIVE ScanObject(_, _, _)

\* JSONArray after the opening bracket; i is at the next value.
ScanArray(s, i, acc) ==
    LET item == ScanOnce(s, i)
        j == SkipWhitespace(s, item.next)
    IN  IF ~item.ok \/ j > Len(s) THEN ParseFailed
        ELSE IF s[j] = "]" THEN Parsed(List(Append(acc, item.val)), j + 1)
        ELSE IF s[j] = ","
             THEN ScanArray(s, SkipWhitespace(s, j + 1), Append(acc, item.val))
        ELSE ParseFailed

\* JSONObject after the opening brace; i is at the quote of the next key.  A
\* key given twice keeps its last value.
ScanObject(s, i, acc) ==
    IF i > Len(s) \/ s[i] # "\"" THEN ParseFailed
    ELSE LET key == ScanString(s, i + 1, <<>>)
             colon == SkipWhitespace(s, key.next)
         IN  IF ~key.ok \/ colon > Len(s) \/ s[colon] # ":" THEN ParseFailed
             ELSE LET item == ScanOnce(s, SkipWhitespace(s, colon + 1))
                      j == SkipWhitespace(s, item.next)
                      k == key.val.str
                      pairs == [x \in DOMAIN acc \cup {k} |->
                                   IF x = k THEN item.val ELSE acc[x]]
                  IN  IF ~item.ok \/ j > Len(s) THEN ParseFailed
                      ELSE IF s[j] = "}" THEN Parsed(Dict(pairs), j + 1)
                      ELSE IF s[j] = ","
                           THEN ScanObject(s, SkipWhitespace(s, j + 1), pairs)
                      ELSE ParseFailed

\* scanner.py_make_scanner._scan_once
ScanOnce(s, i) ==
    IF i > Len(s) THEN ParseFailed
    ELSE IF s[i] = "\"" THEN ScanString(s, i + 1, <<>>)
    ELSE IF s[i] = "{"
         THEN LET j == SkipWhitespace(s, i + 1)
              IN  IF j <= Len(s) /\ s[j] = "}" THEN Parsed(Dict(<<>>), j + 1)
                  ELSE ScanObject(s, j, <<>>)
    ELSE IF s[i] = "["
         THEN LET j == SkipWhitespace(s, i + 1)
              IN  IF j <= Len(s) /\ s[j] = "]" THEN Parsed(List(<<>>), j + 1)
                  ELSE ScanArray(s, j, <<>>)
    ELSE IF s[i] \in Digits THEN ScanNumber(s, i)
    ELSE IF \E l \in JsonLiterals : MatchAt(s, i, l.word)
         THEN LET l == CHOOSE l \in JsonLiterals : MatchAt(s, i, l.word)
              IN  Parsed(l.val, i + Len(l.word))
    ELSE ParseFailed

\* json.loads(s): ok is FALSE where it raises JSONDecodeError.
JsonLoads(s) ==
    LET r == ScanOnce(s, SkipWhitespace(s, 1))
    IN  IF r.ok /\ SkipWhitespace(s, r.next) = Len(s) + 1
        THEN [ok |-> TRUE, val |-> r.val]
        ELSE [ok |-> FALSE, val |-> PyNone]

-----------------------------------------------------------------------------
(* Texts with references.  A str that may hold references is a sequence of *)
(* pieces: literal characters, a run of n literal characters, a match of   *)
(* the pattern {id.output<path>}, and, after resolution, the placeholders. *)

Text(chars) == [text |-> chars]
Filler(n) == [filler |-> n]
RefPiece(n, path) == [ref |-> n, path |-> path]
MissingOutput(n) == [missing_output |-> n]
InvalidOutputPath(n, path) == [invalid_output_path |-> n, path |-> path]
Cut(piece, kept) == [cut |-> piece, kept |-> kept]
TruncatedSuffix(original_length) == [truncated_suffix |-> original_length]

IsText(p) == DOMAIN p = {"text"}
IsRef(p) == DOMAIN p = {"ref", "path"}

MAX_OUTPUT_LENGTH == 1000

IdChars(n) == <<"S", "T", IF n = "ST1" THEN "1" ELSE IF n = "ST2" THEN "2"
                           ELSE IF n = "ST3" THEN "3" ELSE "9">>

Chars_MissingOutput == <<"{", "M", "i", "s", "s", "i", "n", "g", " ", "O",
                         "u", "t", "p", "u", "t", ":", " ">>

Chars_InvalidOutputPath == <<"{", "I", "n", "v", "a", "l", "i", "d", " ", "O",
                             "u", "t", "p", "u", "t", " ", "P", "a", "t", "h",
                             ":", " ">>

\* The characters of a piece; a run of literal characters and the suffix
\* truncate_output appends are only measured.
PieceLen(p) ==
    CASE DOMAIN p = {"text"} -> Len(p.text)
      [] DOMAIN p = {"filler"} -> p.filler
      [] DOMAIN p = {"missing_output"} ->
            Len(Chars_MissingOutput) + Len(IdChars(p.missing_output)) + 1
      [] DOMAIN p = {"invalid_output_path", "path"} ->
            Len(Chars_InvalidOutputPath) + Len(IdChars(p.invalid_output_path))
                + Len(p.path) + 1
      [] DOMAIN p = {"cut", "kept"} -> p.kept
      [] OTHER -> 0

RECURSIVE TextLen(_)
TextLen(pieces) ==
    IF pieces = <<>> THEN 0 ELSE PieceLen(Head(pieces)) + TextLen(Tail(pieces))

\* pieces[:k]
RECURSIVE TakeChars(_, _)
TakeChars(pieces, k) ==
    IF pieces = <<>> \/ k <= 0 THEN <<>>
    ELSE LET p == Head(pieces)
         IN  IF PieceLen(p) <= k
             THEN <<p>> \o TakeChars(Tail(pieces), k - PieceLen(p))
             ELSE IF IsText(p) THEN <<Text(SubSeq(p.text, 1, k))>>
             ELSE IF DOMAIN p = {"filler"} THEN <<Filler(k)>>
             ELSE <<Cut(p, k)>>

\* The str of a value that is not a dict or list.
PyStr(v) ==
    CASE DOMAIN v = {"str"} -> v.str
      [] DOMAIN v = {"num"} -> v.num
      [] DOMAIN v = {"bool"} ->
            IF v.bool THEN <<"T", "r", "u", "e">> ELSE <<"F", "a", "l", "s", "e">>
      [] DOMAIN v = {"none"} -> <<"N", "o", "n", "e">>
      [] OTHER -> <<"<", "o", "b", "j", "e", "c", "t", ">">>

\* A value json.dumps raises TypeError on stands inside a dict or list.
Opaque == [object |-> "bytes"]

RECURSIVE Serializable(_)
Serializable(v) ==
    CASE DOMAIN v = {"dict"} -> \A k \in DOMAIN v.dict : Serializable(v.dict[k])
      [] DOMAIN v = {"list"} -> \A i \in DOMAIN v.list : Serializable(v.list[i])
      [] DOMAIN v = {"object"} -> FALSE
      [] OTHER -> TRUE

RECURSIVE JsonEscape(_)
JsonEscape(s) ==
    IF s = <<>> THEN <<>>
    ELSE (IF Head(s) \in {"\"", "\\"} THEN <<"\\", Head(s)>> ELSE <<Head(s)>>)
         \o JsonEscape(Tail(s))

RECURSIVE SetToSeq(_)
SetToSeq(S) ==
    IF S = {} THEN <<>>
    ELSE LET x == CHOOSE x \in S : TRUE IN <<x>> \o SetToSeq(S \ {x})

\* json.dumps(v, ensure_ascii=False) of a serializable value; the keys of a
\* dict in a fixed order.
RECURSIVE Dumps(_)
RECURSIVE DumpsItems(_)
RECURSIVE DumpsMembers(_, _)
DumpsItems(items) ==
    IF items = <<>> THEN <<>>
    ELSE Dumps(Head(items))
         \o (IF Tail(items) = <<>> THEN <<>> ELSE <<",", " ">> \o DumpsItems(Tail(items)))

DumpsMembers(f, keys) ==
    IF keys = <<>> THEN <<>>
    ELSE <<"\"">> \o JsonEscape(Head(keys)) \o <<"\"", ":", " ">> \o Dumps(f[Head(keys)])
         \o (IF Tail(keys) = <<>> THEN <<>> ELSE <<",", " ">> \o DumpsMembers(f, Tail(keys)))

Dumps(v) ==
    CASE DOMAIN v = {"str"} -> <<"\"">> \o JsonEscape(v.str) \o <<"\"">>
      [] DOMAIN v = {"num"} -> v.num
      [] DOMAIN v = {"bool"} ->
            IF v.bool THEN <<"t", "r", "u", "e">> ELSE <<"f", "a", "l", "s", "e">>
      [] DOMAIN v = {"none"} -> <<"n", "u", "l", "l">>
      [] DOMAIN v = {"list"} -> <<"[">> \o DumpsItems(v.list) \o <<"]">>
      [] DOMAIN v = {"dict"} ->
            <<"{">> \o DumpsMembers(v.dict, SetToSeq(DOMAIN v.dict)) \o <<"}">>

-----------------------------------------------------------------------------
(* Graph2Workflow._resolve_output_path and _resolve_dependencies.          *)

KeyChars == {"a", "b", "_"} \cup Digits

DigitVal(c) == IF c = "0" THEN 0 ELSE 1

\* int(index_str)
RECURSIVE IntOf(_)
IntOf(digits) ==
    IF digits = <<>> THEN 0
    ELSE 10 * IntOf(SubSeq(digits, 1, Len(digits) - 1)) + DigitVal(digits[Len(digits)])

RECURSIVE ScanKey(_, _)
ScanKey(expr, idx) ==
    IF idx <= Len(expr) /\ expr[idx] \in KeyChars THEN ScanKey(expr, idx + 1) ELSE idx

\* The while loop from the 1-based position idx on; ok is FALSE where the
\* code raises ValueError.  No value here has an attribute of the name of a
\* key, so getattr(value, key, None) is None.
RECURSIVE WalkPath(_, _, _)
WalkPath(value, expr, idx) ==
    IF idx > Len(expr) THEN [ok |-> TRUE, val |-> value]
    ELSE IF expr[idx] = "."
         THEN LET end == ScanKey(expr, idx + 1)
                  key == Slice(expr, idx, end - 1)
              IN  IF key = <<>> THEN [ok |-> FALSE, val |-> PyNone]
                  ELSE IF IsDict(value)
                       THEN WalkPath(IF key \in DOMAIN value.dict
                                     THEN value.dict[key] ELSE PyNone, expr, end)
                       ELSE WalkPath(PyNone, expr, end)
    ELSE IF expr[idx] = "["
         THEN LET end == ScanDigits(expr, idx + 1)
                  index_str == Slice(expr, idx, end - 1)
              IN  IF end > Len(expr) \/ expr[end] # "]" THEN [ok |-> FALSE, val |-> PyNone]
                  ELSE IF index_str = <<>> THEN [ok |-> FALSE, val |-> PyNone]
                  ELSE IF IsList(value)
                       THEN IF IntOf(index_str) + 1 \in DOMAIN value.list
                            THEN WalkPath(value.list[IntOf(index_str) + 1], expr, end + 1)
                            ELSE [ok |-> FALSE, val |-> PyNone]
                       ELSE [ok |-> FALSE, val |-> PyNone]
    ELSE [ok |-> TRUE, val |-> value]

ResolveOutputPath(value, path_expr) == WalkPath(value, Strip(path_expr), 1)

\* replace_match leaving the match as it is.
ReplaceMatchUnresolved(p, outs) == [ok |-> TRUE, pieces |-> <<p>>]

\* replace_match: the pieces a match is replaced by; ok is FALSE where
\* json.dumps raises out of re.sub.
ReplaceMatch(p, outs) ==
    LET node_id == p.ref
        ref_val == IF node_id \in Keys(outs) THEN outs[node_id] ELSE PyNone
        resolved == ResolveOutputPath(ref_val, p.path)
    IN  IF ref_val = PyNone THEN [ok |-> TRUE, pieces |-> <<MissingOutput(node_id)>>]
        ELSE IF ~resolved.ok
             THEN [ok |-> TRUE, pieces |-> <<InvalidOutputPath(node_id, p.path)>>]
        ELSE IF IsDict(resolved.val) \/ IsList(resolved.val)
             THEN IF Serializable(resolved.val)
                  THEN [ok |-> TRUE, pieces |-> <<Text(Dumps(resolved.val))>>]
                  ELSE [ok |-> FALSE, pieces |-> <<>>]
        ELSE [ok |-> TRUE, pieces |-> <<Text(PyStr(resolved.val))>>]

\* _resolve_value on a str
RECURSIVE ResolveValue(_, _)
ResolveValue(pieces, outs) ==
    IF pieces = <<>> THEN [ok |-> TRUE, pieces |-> <<>>]
    ELSE LET head == IF IsRef(Head(pieces)) THEN ReplaceMatch(Head(pieces), outs)
                     ELSE [ok |-> TRUE, pieces |-> <<Head(pieces)>>]
             rest == ResolveValue(Tail(pieces), outs)
         IN  [ok |-> head.ok /\ rest.ok, pieces |-> head.pieces \o rest.pieces]

\* The inputs here are dicts of str values.
ResolveDependencies(input_data, outs) ==
    [ok |-> \A k \in DOMAIN input_data : ResolveValue(input_data[k], outs).ok,
     val |-> [k \in DOMAIN input_data |-> ResolveValue(input_data[k], outs).pieces]]

-----------------------------------------------------------------------------
(* tool_node and llm_node in detail: the executor run on a three-node IR   *)
(* whose middle node ST2 holds a reference.                                *)

InputKeyOrder == <<"prompt", "content", "query", "context", "data">>

KeyText(k) ==
    CASE k = "prompt" -> <<"p", "r", "o", "m", "p", "t">>
      [] k = "content" -> <<"c", "o", "n", "t", "e", "n", "t">>
      [] k = "query" -> <<"q", "u", "e", "r", "y">>
      [] k = "context" -> <<"c", "o", "n", "t", "e", "x", "t">>
      [] k = "data" -> <<"d", "a", "t", "a">>

JsonEscapePiece(p) == IF IsText(p) THEN Text(JsonEscape(p.text)) ELSE p

\* json.dumps(d, ensure_ascii=False) of a dict of str values, as pieces.
RECURSIVE DumpsInputMembers(_, _)
DumpsInputMembers(d, keys) ==
    IF keys = <<>> THEN <<>>
    ELSE <<Text(<<"\"">> \o KeyText(Head(keys)) \o <<"\"", ":", " ", "\"">>)>>
         \o [i \in DOMAIN d[Head(keys)] |-> JsonEscapePiece(d[Head(keys)][i])]
         \o <<Text(<<"\"">>)>>
         \o (IF Tail(keys) = <<>> THEN <<>>
             ELSE <<Text(<<",", " ">>)>> \o DumpsInputMembers(d, Tail(keys)))

DumpsInput(d) ==
    <<Text(<<"{">>)>>
    \o DumpsInputMembers(d, SelectSeq(InputKeyOrder, LAMBDA k : k \in DOMAIN d))
    \o <<Text(<<"}">>)>>

\* truncate_output(output) of a str
TruncateStr(pieces) ==
    IF TextLen(pieces) <= MAX_OUTPUT_LENGTH THEN pieces
    ELSE TakeChars(pieces, MAX_OUTPUT_LENGTH) \o <<TruncatedSuffix(TextLen(pieces))>>

\* truncate_output(output) of a dict of str values
TruncateInput(d) ==
    IF TextLen(DumpsInput(d)) <= MAX_OUTPUT_LENGTH THEN d
    ELSE [_truncated |-> TRUE, _original_type |-> "dict",
          _original_length |-> TextLen(DumpsInput(d)),
          _preview |-> TruncateStr(DumpsInput(d))]

\* _normalize_tool_output
NormalizeToolOutput(res) ==
    IF IsStr(res) /\ Strip(res.str) # <<>> /\ JsonLoads(Strip(res.str)).ok
    THEN JsonLoads(Strip(res.str)).val
    ELSE res

\* The phrase of the web fetch tool tested for first, one symbol of the text.
FetchFailedPhrase == <<"<fetch failed phrase>">>

\* _is_tool_failure_output without the lowering of the text.
IsToolFailureOutputCaseSensitive(res) ==
    \/ /\ IsStr(res)
       /\ \/ Contains(res.str, FetchFailedPhrase)
          \/ MatchAt(res.str, 1, <<"e", "r", "r", "o", "r">>)
          \/ Contains(res.str, <<"f", "a", "i", "l", "e", "d">>)
    \/ /\ IsDict(res)
       /\ <<"e", "r", "r", "o", "r">> \in DOMAIN res.dict

\* _is_tool_failure_output
IsToolFailureOutput(res) ==
    \/ /\ IsStr(res)
       /\ \/ Contains(res.str, FetchFailedPhrase)
          \/ MatchAt(Lower(res.str), 1, <<"e", "r", "r", "o", "r">>)
          \/ Contains(Lower(res.str), <<"f", "a", "i", "l", "e", "d">>)
    \/ /\ IsDict(res)
       /\ <<"e", "r", "r", "o", "r">> \in DOMAIN res.dict

\* re.sub(r"<think>.*?</think>", "", s, flags=re.DOTALL): the tags are single
\* symbols of the text.
RECURSIVE RemoveClosedThink(_)
RemoveClosedThink(s) ==
    IF \E i \in DOMAIN s : s[i] = "<think>" /\ \E j \in (i + 1)..Len(s) : s[j] = "</think>"
    THEN LET i == CHOOSE i \in DOMAIN s :
                     /\ s[i] = "<think>" /\ \E j \in (i + 1)..Len(s) : s[j] = "</think>"
                     /\ \A h \in 1..(i - 1) : s[h] # "<think>"
             j == CHOOSE j \in (i + 1)..Len(s) :
                     s[j] = "</think>" /\ \A h \in (i + 1)..(j - 1) : s[h] # "</think>"
         IN  SubSeq(s, 1, i - 1) \o RemoveClosedThink(SubSeq(s, j + 1, Len(s)))
    ELSE s

\* _strip_think_tags of a str
StripThinkTags(s) == Strip(RemoveClosedThink(s))

\* The prompt llm_node sends: str(resolved["prompt"]), else
\* str(resolved["content"]), else json.dumps(resolved).
PromptStr(resolved_input) ==
    IF "prompt" \in DOMAIN resolved_input THEN resolved_input["prompt"]
    ELSE IF "content" \in DOMAIN resolved_input THEN resolved_input["content"]
    ELSE DumpsInput(resolved_input)

NodeTraceEntry(n, status, input) == [node_id |-> n, status |-> status, input |-> input]

\* What a tool call returns (Raises: it raises instead).
Raises == [raises |-> "Exception"]

ToolResults ==
    {Str(<<"o", "k">>),
     Str(<<" ">>),
     PyNone,
     Str(<<"{", "\"", "a", "\"", ":", "[", "1", "]", "}">>),
     Str(<<" ", "[", "1", "]">>),
     Dict(<<"a">> :> Opaque),
     Str(<<"E", "r", "r", "o", "r", " ", "a">>),
     Str(<<"a", " ", "F", "a", "i", "l", "e", "d">>),
     Str(<<"\"", "f", "a", "i", "l", "e", "d", "\"">>),
     Str(<<"{", "\"", "e", "r", "r", "o", "r", "\"", ":", "1", "}">>),
     Dict(<<"e", "r", "r", "o", "r">> :> Str(<<"a">>)),
     Str(FetchFailedPhrase)}

LlmAnswers ==
    {Str(<<"o", "k">>), Str(<<"<think>", "a", "</think>", " ", "[", "1", "]">>)}

\* The path expressions of the reference held by ST2.
RefPaths ==
    {<<>>, <<".", "a">>, <<".", "b">>, <<"[", "0", "]">>, <<"[", "1", "]">>,
     <<".", "a", "[", "0", "]">>, <<"[", "0">>, <<".">>}

PlainText == <<Text(<<"a">>)>>

\* "a {ref.output<path>}", behind MAX_OUTPUT_LENGTH literal characters when
\* long.
RefText(ref, path, long) ==
    (IF long THEN <<Filler(MAX_OUTPUT_LENGTH)>> ELSE <<>>)
    \o <<Text(<<"a", " ">>), RefPiece(ref, path)>>

\* ST9 is no node of the IR.
RefTexts ==
    {RefText("ST1", path, FALSE) : path \in RefPaths}
    \cup {RefText("ST1", <<>>, TRUE), RefText("ST9", <<>>, FALSE)}

\* make_excel is in the tools mapping, mcp_search at most in the registry,
\* ghost in neither.
ToolNames == {"make_excel", "mcp_search", "ghost"}

LlmInputs(t) ==
    {"prompt" :> t, "content" :> t, "query" :> t,
     ("prompt" :> PlainText) @@ ("context" :> t)}

Node2Shapes ==
    {[executor |-> "tool", tool_name |-> "make_excel", input |-> ("data" :> t)] :
        t \in RefTexts}
    \cup {[executor |-> "tool", tool_name |-> name, input |-> ("data" :> PlainText)] :
            name \in ToolNames}
    \cup {[executor |-> "llm", tool_name |-> None, input |-> i] :
            i \in UNION {LlmInputs(t) : t \in RefTexts}}

\* ST1 (tool) and ST3 (llm) are plain; ST3 depends on ST2; with chain ST2
\* depends on ST1, else ST1 and ST2 are both start nodes.
MkNodeIR(shape, chain) ==
    LET E == IF chain THEN {<<"ST1", "ST2">>, <<"ST2", "ST3">>} ELSE {<<"ST2", "ST3">>}
        preds(n) == {e[1] : e \in {x \in E : x[2] = n}}
        succs(n) == {e[2] : e \in {x \in E : x[1] = n}}
        body(n) ==
            CASE n = "ST1" -> [executor |-> "tool", tool_name |-> "make_excel",
                               input |-> ("data" :> PlainText)]
              [] n = "ST2" -> shape
              [] n = "ST3" -> [executor |-> "llm", tool_name |-> None,
                               input |-> ("prompt" :> PlainText)]
    IN  [nodes |-> [n \in {"ST1", "ST2", "ST3"} |->
            [executor |-> body(n).executor,
             tool_name |-> body(n).tool_name,
             source |-> ListHint(SeqOf(preds(n))),
             target |-> ListHint(SeqOf(succs(n))),
             input |-> body(n).input,
             output |-> "text"]],
         edges |-> EdgeSeqOf(E),
         order |-> <<"ST1", "ST2", "ST3">>]

NodeIRs == {MkNodeIR(shape, chain) : shape \in Node2Shapes, chain \in BOOLEAN}

NodeInit ==
    /\ workflow_ir \in NodeIRs
    /\ pc = "constructed"
    /\ ExecFresh
    /\ tools = {"make_excel"}
    /\ mcp_tools \in {{}, {"mcp_search"}}
    /\ calls = <<>>
    /\ InjIdle
    /\ ValIdle
    /\ PlanIdle
    /\ OvIdle
    /\ ExtIdle
    /\ RtIdle
    /\ CtxIdle
    /\ McpIdle
    /\ MrgIdle
    /\ ScanIdle

\* The except block and the statements after it.
NodeFails(n, input) ==
    /\ execution_trace' = Append(execution_trace, NodeTraceEntry(n, "failed", input))
    /\ completed_nodes' = MarkNodeCompleted(n)
    /\ returned' = returned @@ (n :> ErrText(n))

\* The end of the try block and the statements after it.
NodeSucceeds(n, input) ==
    /\ execution_trace' = Append(execution_trace, NodeTraceEntry(n, "success", input))
    /\ completed_nodes' = MarkNodeCompleted(n)
    /\ returned' = returned @@ (n :> error)

\* tool_node, the whole function body past the _should_execute_node test; the
\* input holds no __from_guard__ or __from_guards__ key.
ToolNode(n) ==
    /\ pc = "running"
    /\ n \in (tasks \ {START}) \ Keys(returned)
    /\ workflow_ir.nodes[n].executor = "tool"
    /\ ShouldExecuteNode(n, outputs)
    /\ invocations' = [invocations EXCEPT ![n] = @ + 1]
    /\ LET subtask == workflow_ir.nodes[n]
           raw_input == subtask.input
           tool_input == ResolveDependencies(raw_input, outputs)
       IN  IF subtask.tool_name \notin tools \cup mcp_tools
           THEN /\ NodeFails(n, TruncateInput(raw_input))
                /\ UNCHANGED <<tools, calls, outputs, output_writes>>
           ELSE /\ tools' = tools \cup {subtask.tool_name}
                /\ IF ~tool_input.ok
                   THEN /\ NodeFails(n, TruncateInput(raw_input))
                        /\ UNCHANGED <<calls, outputs, output_writes>>
                   ELSE \E returns \in ToolResults \cup {Raises} :
                          /\ calls' = Append(calls, [node |-> n, callee |-> subtask.tool_name,
                                                     arguments |-> tool_input.val,
                                                     returns |-> returns])
                          /\ IF returns = Raises
                                \/ IsToolFailureOutput(NormalizeToolOutput(returns))
                             THEN /\ NodeFails(n, TruncateInput(tool_input.val))
                                  /\ UNCHANGED <<outputs, output_writes>>
                             ELSE /\ outputs' = merge_outputs(outputs,
                                                    n :> NormalizeToolOutput(returns))
                                  /\ output_writes' =
                                        Append(output_writes, [writer |-> n, key |-> n])
                                  /\ IF Serializable(NormalizeToolOutput(returns))
                                     THEN NodeSucceeds(n, TruncateInput(tool_input.val))
                                     ELSE NodeFails(n, TruncateInput(tool_input.val))
    /\ UNCHANGED <<workflow_ir, pc, node_dependencies, error, tasks, result, mcp_tools>>
    /\ UNCHANGED <<inj_vars, val_vars, plan_vars, ov_vars, ext_vars, rt_vars,
                   ctx_vars, mcp_vars, mrg_vars, scan_vars>>

\* llm_node, the whole function body past the _should_execute_node test.
LlmNode(n) ==
    /\ pc = "running"
    /\ n \in (tasks \ {START}) \ Keys(returned)
    /\ workflow_ir.nodes[n].executor = "llm"
    /\ ShouldExecuteNode(n, outputs)
    /\ invocations' = [invocations EXCEPT ![n] = @ + 1]
    /\ LET raw_input == workflow_ir.nodes[n].input
           resolved_input == ResolveDependencies(raw_input, outputs)
           prompt_str == PromptStr(resolved_input.val)
       IN  IF ~resolved_input.ok
           THEN /\ NodeFails(n, "prompt" :> TruncateInput(raw_input))
                /\ UNCHANGED <<calls, outputs, output_writes>>
           ELSE \E returns \in LlmAnswers \cup {Raises} :
                  /\ calls' = Append(calls, [node |-> n, callee |-> "llm",
                                             arguments |-> ("prompt" :> prompt_str),
                                             returns |-> returns])
                  /\ IF returns = Raises
                     THEN /\ NodeFails(n, "prompt" :> TruncateStr(prompt_str))
                          /\ UNCHANGED <<outputs, output_writes>>
                     ELSE /\ outputs' = merge_outputs(outputs,
                                            n :> Str(StripThinkTags(returns.str)))
                          /\ output_writes' =
                                Append(output_writes, [writer |-> n, key |-> n])
                          /\ NodeSucceeds(n, "prompt" :> TruncateStr(prompt_str))
    /\ UNCHANGED <<workflow_ir, pc, node_dependencies, error, tasks, result,
                   tools, mcp_tools>>
    /\ UNCHANGED <<inj_vars, val_vars, plan_vars, ov_vars, ext_vars, rt_vars,
                   ctx_vars, mcp_vars, mrg_vars, scan_vars>>

NodeNext ==
    \/ PrepareTools
    \/ BuildAndCompile
    \/ RunStartNode
    \/ \E n \in NodeSet(workflow_ir) : SkipNode(n)
    \/ \E n \in NodeSet(workflow_ir) : ToolNode(n)
    \/ \E n \in NodeSet(workflow_ir) : LlmNode(n)
    \/ EndSuperstep

SpecNode == NodeInit /\ [][NodeNext]_vars

-----------------------------------------------------------------------------
(* JsonExtractor.extract (SubtaskPlanner._extract_json_block is the same   *)
(* code).  The tags <think>, </think> and the code fence of three         *)
(* backquotes, <fence>, are single symbols of a text.                      *)

\* re.sub(r"<think>.*", "", s, flags=re.DOTALL)
RemoveOpenThink(s) ==
    IF \E i \in DOMAIN s : s[i] = "<think>"
    THEN SubSeq(s, 1, (CHOOSE i \in DOMAIN s :
                            s[i] = "<think>" /\ \A h \in 1..(i - 1) : s[h] # "<think>") - 1)
    ELSE s

\* _remove_think_tags
RemoveThinkTags(content) == Strip(RemoveOpenThink(RemoveClosedThink(content)))

\* _try_parse
TryParse(content) == JsonLoads(content).ok

\* re.findall of the pattern <fence>(?:json)?\s*(.*?)<fence> from position i
\* on, each block stripped.
RECURSIVE CodeBlocks(_, _)
CodeBlocks(content, i) ==
    IF \E a \in i..Len(content) :
            content[a] = "<fence>" /\ \E b \in (a + 1)..Len(content) : content[b] = "<fence>"
    THEN LET a == CHOOSE a \in i..Len(content) :
                    /\ content[a] = "<fence>"
                    /\ \A h \in i..(a - 1) : content[h] # "<fence>"
             b == CHOOSE b \in (a + 1)..Len(content) :
                    /\ content[b] = "<fence>"
                    /\ \A h \in (a + 1)..(b - 1) : content[h] # "<fence>"
             from == IF MatchAt(content, a + 1, <<"j", "s", "o", "n">>)
                     THEN a + 5 ELSE a + 1
         IN  <<Strip(SubSeq(content, from, b - 1))>> \o CodeBlocks(content, b + 1)
    ELSE <<>>

NoText == [ok |-> FALSE, text |-> <<>>]

\* _extract_from_code_block
ExtractFromCodeBlock(content) ==
    LET parsing == SelectSeq(CodeBlocks(content, 1), LAMBDA c : c # <<>> /\ TryParse(c))
    IN  IF parsing = <<>> THEN NoText ELSE [ok |-> TRUE, text |-> parsing[1]]

OpeningChars == {"{", "["}
ClosingChars == {"}", "]"}
ClosingMap(ch) == IF ch = "{" THEN "}" ELSE "]"

\* _extract_by_bracket_matching, the while loop: idx and start_idx count
\* from 0, start_idx = -1 stands for None, the top of the stack is its last
\* element.
RECURSIVE BracketScan(_, _, _, _, _, _)
BracketScan(content, idx, start_idx, stack, in_string, escape) ==
    IF idx >= Len(content) THEN NoText
    ELSE LET ch == content[idx + 1]
         IN  IF start_idx = -1
             THEN IF ch \in OpeningChars
                  THEN BracketScan(content, idx + 1, idx, <<ClosingMap(ch)>>, FALSE, FALSE)
                  ELSE BracketScan(content, idx + 1, -1, stack, in_string, escape)
             ELSE IF in_string
                  THEN BracketScan(content, idx + 1, start_idx, stack,
                                   ~(~escape /\ ch = "\""),
                                   ~escape /\ ch = "\\")
             ELSE IF ch \in ClosingChars /\ (stack = <<>> \/ ch # stack[Len(stack)])
                  THEN BracketScan(content, idx + 1, -1, <<>>, FALSE, FALSE)
             ELSE LET stack2 == IF ch \in OpeningChars THEN Append(stack, ClosingMap(ch))
                                ELSE IF ch \in ClosingChars
                                     THEN SubSeq(stack, 1, Len(stack) - 1)
                                ELSE stack
                      candidate == SubSeq(content, start_idx + 1, idx + 1)
                  IN  IF stack2 = <<>>
                      THEN IF TryParse(candidate)
                           THEN [ok |-> TRUE, text |-> Strip(candidate)]
                           ELSE BracketScan(content, start_idx + 1, -1, <<>>, FALSE, FALSE)
                      ELSE BracketScan(content, idx + 1, start_idx, stack2, ch = "\"", FALSE)

\* _extract_by_bracket_matching
ExtractByBracketMatching(content) == BracketScan(content, 0, -1, <<>>, FALSE, FALSE)

\* extract: ok is FALSE where it raises ValueError.
Extract(content) ==
    LET stripped == Strip(content)
        cleaned == IF RemoveThinkTags(stripped) = <<>> THEN stripped
                   ELSE RemoveThinkTags(stripped)
    IN  IF stripped = <<>> THEN NoText
        ELSE IF TryParse(cleaned) THEN [ok |-> TRUE, text |-> cleaned]
        ELSE IF ExtractFromCodeBlock(cleaned).ok THEN ExtractFromCodeBlock(cleaned)
        ELSE ExtractByBracketMatching(cleaned)

\* The JSON texts embedded in an answer, and the characters around them.
JsonTexts ==
    {<<"{", "\"", "a", "\"", ":", "1", "}">>,
     <<"{", "\"", "a", "\"", ":", " ", "[", "1", "]", "}">>,
     <<"{", "\"", "a", "\"", ":", "\"", "]", "\\", "\"", "\"", "}">>,
     <<"[", "1", ",", "{", "}", "]">>,
     <<"[", "]">>}

AffixChars == {"a", " ", "{", "}", "[", "]", "\"", "<fence>", "<think>", "</think>"}

MaxAffixLen == 2

Affixes(len) == UNION {[1..k -> AffixChars] : k \in 0..len}

ExtInit ==
    /\ \E prefix \in Affixes(MaxAffixLen), suffix \in Affixes(1), json \in JsonTexts :
          /\ ext_json = json
          /\ ext_content = prefix \o json \o suffix
    /\ ext_done = FALSE
    /\ ext_result = NoText
    /\ ExecIdle
    /\ InjIdle
    /\ ValIdle
    /\ PlanIdle
    /\ OvIdle
    /\ NodeIdle
    /\ RtIdle
    /\ CtxIdle
    /\ McpIdle
    /\ MrgIdle
    /\ ScanIdle

RunExtract ==
    /\ ~ext_done
    /\ ext_done' = TRUE
    /\ ext_result' = Extract(ext_content)
    /\ UNCHANGED <<ext_json, ext_content>>
    /\ UNCHANGED not_ext_vars

ExtNext == RunExtract

SpecExtract == ExtInit /\ [][ExtNext]_vars

-----------------------------------------------------------------------------
(* ToolRetriever.retrieve_subset.  The score of a tool against the task is *)
(* an input: BM25 gives a sum of non-negative terms, the cosine similarity *)
(* of the semantic backend may be zero or negative.                        *)

CatalogNames == <<"t1", "t2", "t3">>
PinnedNames == <<"t1", "t2", "t9">>

MaxTopK == 2
MaxScore == 2

Subsequences(s) == {SelectSeq(s, LAMBDA x : x \in S) : S \in SUBSET Range(s)}

\* results.sort(key=lambda item: item[1], reverse=True): a stable sort, the
\* tools of equal score keep their order.
RECURSIVE SortByScore(_, _)
SortByScore(names, score) ==
    IF names = <<>> THEN <<>>
    ELSE LET i == CHOOSE i \in DOMAIN names :
                    /\ \A j \in DOMAIN names : score[names[j]] <= score[names[i]]
                    /\ \A j \in 1..(i - 1) : score[names[j]] < score[names[i]]
         IN  <<names[i]>> \o SortByScore(SubSeq(names, 1, i - 1)
                                          \o SubSeq(names, i + 1, Len(names)), score)

\* results[:top_k] for top_k >= 0
FirstK(s, k) == SubSeq(s, 1, IF k < Len(s) THEN k ELSE Len(s))

\* SemanticRetriever.retrieve: every tool is ranked, whatever its score.
SemanticRetrieve(mode, docs, score, top_k) ==
    IF mode = "semantic unavailable" THEN <<>>
    ELSE FirstK(SortByScore(docs, score), top_k)

\* ToolRetriever.retrieve: the names of the ranked tools, best first.  A task
\* without tokens scores zero on every tool.
Retrieve(mode, docs, score, top_k) ==
    IF mode # "bm25" THEN SemanticRetrieve(mode, docs, score, top_k)
    ELSE FirstK(SortByScore(SelectSeq(docs, LAMBDA n : score[n] > 0), score), top_k)

\* The loop over pinned_tools.
RECURSIVE AddPinned(_, _, _)
AddPinned(res, pinned, catalog) ==
    IF pinned = <<>> THEN res
    ELSE AddPinned(IF Head(pinned) \in Range(catalog) /\ Head(pinned) \notin Range(res)
                   THEN Append(res, Head(pinned)) ELSE res,
                   Tail(pinned), catalog)

\* retrieve_subset without the loop over pinned_tools.
RetrieveSubsetUnpinned(mode, docs, score, top_k, pinned) ==
    Retrieve(mode, docs, score, top_k)

\* retrieve_subset: the keys of the dict it returns, <<>> for None.  The
\* semantic backend adds the pinned tools itself when it ranked any; the loop
\* here adds the rest.
RetrieveSubset(mode, docs, score, top_k, pinned) ==
    AddPinned(IF mode = "bm25" \/ Retrieve(mode, docs, score, top_k) = <<>>
              THEN Retrieve(mode, docs, score, top_k)
              ELSE AddPinned(Retrieve(mode, docs, score, top_k), pinned, docs),
              pinned, docs)

RtInit ==
    /\ retriever_mode \in {"bm25", "semantic", "semantic unavailable"}
    /\ tools_data \in Subsequences(CatalogNames)
    /\ pinned_tools \in Subsequences(PinnedNames)
    /\ rt_scores \in [Range(tools_data) ->
                        IF retriever_mode = "bm25" THEN 0..MaxScore ELSE -1..MaxScore]
    /\ rt_top_k \in 0..MaxTopK
    /\ rt_done = FALSE
    /\ rt_ranked = <<>>
    /\ rt_result = <<>>
    /\ ExecIdle
    /\ InjIdle
    /\ ValIdle
    /\ PlanIdle
    /\ OvIdle
    /\ NodeIdle
    /\ ExtIdle
    /\ CtxIdle
    /\ McpIdle
    /\ MrgIdle
    /\ ScanIdle

RunRetrieveSubset ==
    /\ ~rt_done
    /\ rt_done' = TRUE
    /\ rt_ranked' = Retrieve(retriever_mode, tools_data, rt_scores, rt_top_k)
    /\ rt_result' = RetrieveSubset(retriever_mode, tools_data, rt_scores, rt_top_k,
                                   pinned_tools)
    /\ UNCHANGED <<retriever_mode, tools_data, pinned_tools, rt_scores, rt_top_k>>
    /\ UNCHANGED not_rt_vars

RtNext == RunRetrieveSubset

SpecRetrieve == RtInit /\ [][RtNext]_vars

-----------------------------------------------------------------------------
(* The node classes of the node package (ToolNode, LLMNode, ParamGuardNode) *)
(* run on one state dict and one NodeExecutionContext.                      *)

CtxNodes == {"ST1", "ST2", "GUARD1"}

NodeType(n) ==
    CASE n = "ST1" -> "tool" [] n = "ST2" -> "llm" [] n = "GUARD1" -> "param_guard"

\* execute is called at most MaxExecutions times on each node object.
MaxExecutions == 2

\* WorkflowNode._should_execute
ShouldExecute(n) ==
    IF n \in ctx_completed_nodes THEN FALSE
    ELSE \A dep \in ctx_node_dependencies[n] : dep \in DOMAIN state_outputs

\* The part of the context a node writes, and whether an exception leaves
\* _finalize_trace.
Context == [trace |-> ctx_execution_trace, completed |-> ctx_completed_nodes,
            broadcasts |-> broadcasts, propagates |-> FALSE]

\* _finalize_trace without the try/except around the callback.
FinalizeTraceUnprotected(c, n, status, cb_raises) ==
    LET entry == TraceEntry(n, status)
    IN  [trace |-> Append(c.trace, entry),
         completed |-> c.completed \cup {n},
         broadcasts |-> IF ctx_broadcast_callback
                        THEN Append(c.broadcasts,
                                    [entry |-> entry, at |-> Len(c.trace) + 1,
                                     raised |-> cb_raises])
                        ELSE c.broadcasts,
         propagates |-> ctx_broadcast_callback /\ cb_raises]

\* WorkflowNode._finalize_trace: the entry is completed and appended, the node
\* is marked completed, then the callback, if one is set, is called inside
\* try / except Exception.  cb_raises: the callback raises an Exception.
FinalizeTrace(c, n, status, cb_raises) ==
    LET entry == TraceEntry(n, status)
    IN  [trace |-> Append(c.trace, entry),
         completed |-> c.completed \cup {n},
         broadcasts |-> IF ctx_broadcast_callback
                        THEN Append(c.broadcasts,
                                    [entry |-> entry, at |-> Len(c.trace) + 1,
                                     raised |-> cb_raises])
                        ELSE c.broadcasts,
         propagates |-> FALSE]

\* How the try block of execute can end.
\*   success      everything ran up to _finalize_trace
\*   raise        an exception before state["outputs"][id] is assigned
\*   store_raise  ToolNode: truncate_output(result) raises after the assignment
\*   escape       ParamGuardNode: the except block raises before it reaches
\*                _finalize_trace
ExecuteOutcomes(type) ==
    CASE type = "tool" -> {"success", "raise", "store_raise"}
      [] type = "llm" -> {"success", "raise"}
      [] type = "param_guard" -> {"success", "raise", "escape"}

\* The except block of execute.
ExecuteExcept(n, outs, c, cb_raises) ==
    [outputs |-> outs, error |-> ErrText(n),
     context |-> FinalizeTrace(c, n, "failed", cb_raises)]

\* ToolNode.execute / LLMNode.execute / ParamGuardNode.execute once
\* _should_execute holds: the state and the context it leaves behind.
Execute(n, outcome, cb_raises) ==
    CASE outcome = "success" ->
            LET outs == merge_outputs(state_outputs, n :> "json")
                c == FinalizeTrace(Context, n, "success", cb_raises)
            IN  IF c.propagates THEN ExecuteExcept(n, outs, c, cb_raises)
                ELSE [outputs |-> outs, error |-> state_error, context |-> c]
      [] outcome = "raise" -> ExecuteExcept(n, state_outputs, Context, cb_raises)
      [] outcome = "store_raise" ->
            ExecuteExcept(n, merge_outputs(state_outputs, n :> "unserializable"),
                          Context, cb_raises)
      [] outcome = "escape" ->
            [outputs |-> state_outputs, error |-> ErrText(n), context |-> Context]

CtxInit ==
    /\ ctx_node_dependencies \in
          {d \in [CtxNodes -> SUBSET CtxNodes] :
              /\ d["ST1"] = {}
              /\ d["GUARD1"] \subseteq {"ST1"}
              /\ d["ST2"] \subseteq {"ST1", "GUARD1"}}
    /\ ctx_broadcast_callback \in BOOLEAN
    /\ ctx_execution_trace = <<>>
    /\ ctx_completed_nodes = {}
    /\ state_outputs = EmptyDict
    /\ state_error = NoError
    /\ ctx_executions = [n \in CtxNodes |-> 0]
    /\ broadcasts = <<>>
    /\ ExecIdle
    /\ InjIdle
    /\ ValIdle
    /\ PlanIdle
    /\ OvIdle
    /\ NodeIdle
    /\ ExtIdle
    /\ RtIdle
    /\ McpIdle
    /\ MrgIdle
    /\ ScanIdle

\* node.execute(state)
NodeExecute(n) ==
    /\ ctx_executions[n] < MaxExecutions
    /\ ctx_executions' = [ctx_executions EXCEPT ![n] = @ + 1]
    /\ IF ~ShouldExecute(n)
       THEN UNCHANGED <<ctx_execution_trace, ctx_completed_nodes, state_outputs,
                        state_error, broadcasts>>
       ELSE \E outcome \in ExecuteOutcomes(NodeType(n)),
               cb_raises \in (IF ctx_broadcast_callback THEN BOOLEAN ELSE {FALSE}) :
               LET after == Execute(n, outcome, cb_raises)
               IN  /\ state_outputs' = after.outputs
                   /\ state_error' = after.error
                   /\ ctx_execution_trace' = after.context.trace
                   /\ ctx_completed_nodes' = after.context.completed
                   /\ broadcasts' = after.context.broadcasts
    /\ UNCHANGED <<ctx_node_dependencies, ctx_broadcast_callback>>
    /\ UNCHANGED not_ctx_vars

CtxNext == \E n \in CtxNodes : NodeExecute(n)

SpecNodeClasses == CtxInit /\ [][CtxNext]_vars

-----------------------------------------------------------------------------
(* MCPToolManager used from several threads: the node functions of one     *)
(* superstep call call_tool concurrently, execute calls prepare_tools.     *)
(* Each statement of _ensure_server is a step of its own; no lock is held. *)

Threads == {"thread1", "thread2"}

Servers == {"search", "files"}

ManagerOps == {"call_tool", "prepare_tools"}

NoServers == [s \in {} |-> 0]

McpInit ==
    /\ connections = NoServers
    /\ created_connections = <<>>
    /\ thread_op \in [Threads -> [op : ManagerOps, server : Servers]]
    /\ thread_pc = [t \in Threads |-> "ensure_server"]
    /\ thread_connection = [t \in Threads |-> 0]
    /\ tool_calls = <<>>
    /\ ExecIdle
    /\ InjIdle
    /\ ValIdle
    /\ PlanIdle
    /\ OvIdle
    /\ NodeIdle
    /\ ExtIdle
    /\ RtIdle
    /\ CtxIdle
    /\ MrgIdle
    /\ ScanIdle

\* Where a thread goes once _ensure_server has returned.
AfterEnsure(t) == IF thread_op[t].op = "call_tool" THEN "call" ELSE "done"

\* _ensure_server: if server_name in self.connections: return
CheckConnections(t) ==
    /\ thread_pc[t] = "ensure_server"
    /\ thread_pc' = [thread_pc EXCEPT ![t] =
                        IF thread_op[t].server \in DOMAIN connections
                        THEN AfterEnsure(t) ELSE "create"]
    /\ UNCHANGED <<connections, created_connections, thread_op, thread_connection,
                   tool_calls>>
    /\ UNCHANGED not_mcp_vars

\* connection = MCPClientConnection(server_name, server_cfg)
CreateConnection(t) ==
    /\ thread_pc[t] = "create"
    /\ created_connections' = Append(created_connections,
                                     [server |-> thread_op[t].server,
                                      started |-> FALSE, ready |-> FALSE])
    /\ thread_connection' = [thread_connection EXCEPT ![t] = Len(created_connections) + 1]
    /\ thread_pc' = [thread_pc EXCEPT ![t] = "start"]
    /\ UNCHANGED <<connections, thread_op, tool_calls>>
    /\ UNCHANGED not_mcp_vars

\* connection.start(): the session is opened on the connection's loop; start
\* returns once _ready_event is set and raises MCPManagerError after 10 s.
StartConnection(t) ==
    /\ thread_pc[t] = "start"
    /\ \E in_time \in BOOLEAN :
          /\ created_connections' =
                [created_connections EXCEPT ![thread_connection[t]] =
                    [@ EXCEPT !.started = TRUE, !.ready = in_time]]
          /\ thread_pc' = [thread_pc EXCEPT ![t] =
                              IF in_time THEN "assign" ELSE "raised"]
    /\ UNCHANGED <<connections, thread_op, thread_connection, tool_calls>>
    /\ UNCHANGED not_mcp_vars

\* self.connections[server_name] = connection
AssignConnection(t) ==
    /\ thread_pc[t] = "assign"
    /\ connections' = [s \in DOMAIN connections \cup {thread_op[t].server} |->
                          IF s = thread_op[t].server THEN thread_connection[t]
                          ELSE connections[s]]
    /\ thread_pc' = [thread_pc EXCEPT ![t] = AfterEnsure(t)]
    /\ UNCHANGED <<created_connections, thread_op, thread_connection, tool_calls>>
    /\ UNCHANGED not_mcp_vars

\* call_tool: connection = self.connections[record.mcp_server];
\* connection.call_tool(record.mcp_tool, arguments)
CallTool(t) ==
    /\ thread_pc[t] = "call"
    /\ tool_calls' = Append(tool_calls,
                            [connection |-> connections[thread_op[t].server],
                             ready |-> created_connections[
                                          connections[thread_op[t].server]].ready])
    /\ thread_pc' = [thread_pc EXCEPT ![t] = "done"]
    /\ UNCHANGED <<connections, created_connections, thread_op, thread_connection>>
    /\ UNCHANGED not_mcp_vars

McpNext ==
    \E t \in Threads :
        \/ CheckConnections(t)
        \/ CreateConnection(t)
        \/ StartConnection(t)
        \/ AssignConnection(t)
        \/ CallTool(t)

SpecMcp == McpInit /\ [][McpNext]_vars

-----------------------------------------------------------------------------
(* The reducers merge_errors and merge_current_tasks applied to values.    *)

\* Error texts and task lists hold at most MaxMergeLen node ids.
MaxMergeLen == 1

IdSeqs == UNION {[1..k -> {"ST1", "ST2"}] : k \in 0..MaxMergeLen}

\* merge_current_tasks: existing is None or a list, new is a list.
merge_current_tasks(existing, new) ==
    IF existing = PyNone THEN new ELSE List(existing.list \o new.list)

MrgInit ==
    /\ merge_errors_args \in [{"a", "b", "c"} -> IdSeqs]
    /\ merge_tasks_args \in [{"a", "b", "c"} -> {List(s) : s \in IdSeqs}]
    /\ merge_done = FALSE
    /\ merge_results = <<>>
    /\ ExecIdle
    /\ InjIdle
    /\ ValIdle
    /\ PlanIdle
    /\ OvIdle
    /\ NodeIdle
    /\ ExtIdle
    /\ RtIdle
    /\ CtxIdle
    /\ McpIdle
    /\ ScanIdle

\* Each reducer is applied with the empty value on either side of a, and to
\* a, b, c in both groupings.
RunMerge ==
    /\ ~merge_done
    /\ merge_done' = TRUE
    /\ merge_results' =
          LET e == merge_errors_args
              t == merge_tasks_args
          IN  [errors_empty_left |-> merge_errors(NoError, e["a"]),
               errors_empty_right |-> merge_errors(e["a"], NoError),
               errors_left_grouped |->
                  merge_errors(merge_errors(e["a"], e["b"]), e["c"]),
               errors_right_grouped |->
                  merge_errors(e["a"], merge_errors(e["b"], e["c"])),
               tasks_none_left |-> merge_current_tasks(PyNone, t["a"]),
               tasks_empty_left |-> merge_current_tasks(List(<<>>), t["a"]),
               tasks_empty_right |-> merge_current_tasks(t["a"], List(<<>>)),
               tasks_left_grouped |->
                  merge_current_tasks(merge_current_tasks(t["a"], t["b"]), t["c"]),
               tasks_right_grouped |->
                  merge_current_tasks(t["a"], merge_current_tasks(t["b"], t["c"]))]
    /\ UNCHANGED <<merge_errors_args, merge_tasks_args>>
    /\ UNCHANGED not_mrg_vars

MrgNext == RunMerge

SpecMerge == MrgInit /\ [][MrgNext]_vars

-----------------------------------------------------------------------------
(* _extract_by_bracket_matching, one iteration of its while loop at a      *)
(* time.                                                                   *)

ScanChars == {"{", "}", "[", "]", "\"", "\\", "1"}

\* The texts scanned hold at most MaxScanLen characters.
MaxScanLen == 4

ScanTexts == UNION {[1..k -> ScanChars] : k \in 0..MaxScanLen}

\* start_idx = None; stack = []; in_string = False; escape = False
Reset(idx) ==
    [idx |-> idx, start_idx |-> -1, stack |-> <<>>, in_string |-> FALSE,
     escape |-> FALSE]

RestartAtCandidate(start_idx) == start_idx

\* idx = start_idx + 1, after a candidate that does not parse
RestartIndex(start_idx) == start_idx + 1

\* The body of the loop for the character at s.idx: the loop variables after
\* it, and whether it returned the candidate.
ScanIteration(content, s) ==
    LET ch == content[s.idx + 1]
        stack2 == IF ch \in OpeningChars THEN Append(s.stack, ClosingMap(ch))
                  ELSE IF ch \in ClosingChars
                       THEN SubSeq(s.stack, 1, Len(s.stack) - 1)
                  ELSE s.stack
        candidate == SubSeq(content, s.start_idx + 1, s.idx + 1)
        going(next) == [next |-> next, returned |-> FALSE, text |-> <<>>]
    IN  IF s.start_idx = -1
        THEN IF ch \in OpeningChars
             THEN going([idx |-> s.idx + 1, start_idx |-> s.idx,
                         stack |-> <<ClosingMap(ch)>>, in_string |-> FALSE,
                         escape |-> FALSE])
             ELSE going([s EXCEPT !.idx = @ + 1])
        ELSE IF s.in_string
        THEN going([s EXCEPT !.idx = @ + 1,
                             !.in_string = ~(~s.escape /\ ch = "\""),
                             !.escape = ~s.escape /\ ch = "\\"])
        ELSE IF ch \in ClosingChars /\ (s.stack = <<>> \/ ch # s.stack[Len(s.stack)])
        THEN going(Reset(s.idx + 1))
        ELSE IF stack2 = <<>>
        THEN IF TryParse(candidate)
             THEN [next |-> s, returned |-> TRUE, text |-> Strip(candidate)]
             ELSE going(Reset(RestartIndex(s.start_idx)))
        ELSE going([s EXCEPT !.idx = @ + 1, !.stack = stack2,
                             !.in_string = (ch = "\"")])

ScanInit ==
    /\ scan_content \in ScanTexts
    /\ scan = Reset(0)
    /\ scan_done = FALSE
    /\ scan_result = NoText
    /\ scan_starts = <<>>
    /\ ExecIdle
    /\ InjIdle
    /\ ValIdle
    /\ PlanIdle
    /\ OvIdle
    /\ NodeIdle
    /\ ExtIdle
    /\ RtIdle
    /\ CtxIdle
    /\ McpIdle
    /\ MrgIdle

\* while idx < length: an iteration
ScanStep ==
    /\ ~scan_done
    /\ scan.idx < Len(scan_content)
    /\ LET it == ScanIteration(scan_content, scan)
       IN  /\ scan' = it.next
           /\ scan_done' = it.returned
           /\ scan_result' = IF it.returned THEN [ok |-> TRUE, text |-> it.text]
                             ELSE scan_result
           /\ scan_starts' = IF scan.start_idx = -1 /\ it.next.start_idx # -1
                             THEN Append(scan_starts, it.next.start_idx)
                             ELSE scan_starts
    /\ UNCHANGED scan_content
    /\ UNCHANGED not_scan_vars

\* the loop ends at the end of the text: return None
ScanReturnNone ==
    /\ ~scan_done
    /\ scan.idx >= Len(scan_content)
    /\ scan_done' = TRUE
    /\ scan_result' = NoText
    /\ UNCHANGED <<scan_content, scan, scan_starts>>
    /\ UNCHANGED not_scan_vars

ScanNext == ScanStep \/ ScanReturnNone

\* The loop is sequential code: an iteration that can run does run.
SpecScan == ScanInit /\ [][ScanNext]_vars /\ WF_vars(ScanNext)

-----------------------------------------------------------------------------
(* Properties of the executor.                                             *)

TraceIds == {execution_trace[i].node_id : i \in DOMAIN execution_trace}

SuccessIds ==
    {execution_trace[i].node_id :
        i \in {j \in DOMAIN execution_trace : execution_trace[j].status = "success"}}

FailedIds ==
    {execution_trace[i].node_id :
        i \in {j \in DOMAIN execution_trace : execution_trace[j].status = "failed"}}

TraceCount(n) ==
    Cardinality({i \in DOMAIN execution_trace : execution_trace[i].node_id = n})

WriteCount(k) ==
    Cardinality({i \in DOMAIN output_writes : output_writes[i].key = k})

\* app.invoke returned the final state (no exception was caught by execute).
NormalReturn == pc = "returned" /\ tasks = {}

\* C1: a node with two or more incoming edges starts executing only when
\* every one of its edge predecessors has an entry in outputs.
C1_FanInWaitsForAllPredecessors ==
    [][\A n \in NodeIds :
          (ExecuteNode(n) /\ Cardinality(Pred(workflow_ir, n)) >= 2)
              => Pred(workflow_ir, n) \subseteq Keys(outputs)]_vars

C1_Witness ==
    \E n \in NodeSet(workflow_ir) :
        /\ Cardinality(Pred(workflow_ir, n)) >= 2
        /\ n \in TraceIds

\* C2: when a node has failed, none of its direct or transitive successors
\* has a trace entry or an entry in outputs.
C2_FailureBlocksSuccessors ==
    \A f \in FailedIds :
        \A d \in Descendants(workflow_ir, f) :
            d \notin TraceIds /\ d \notin Keys(outputs)

\* C3: when execute has returned for a validator-accepted acyclic IR, every
\* node all of whose edge ancestors succeeded has a trace entry.
C3_IndependentBranchesRun ==
    pc = "returned" =>
        \A n \in NodeSet(workflow_ir) :
            Ancestors(workflow_ir, n) \subseteq SuccessIds => n \in TraceIds

\* C4: every node id occurs at most once in execution_trace, and outputs[id]
\* is assigned at most once and only by the node id itself, however often the
\* scheduler invokes the node function.
C4_AtMostOnce ==
    /\ \A n \in AllNodeIds : TraceCount(n) <= 1 /\ WriteCount(n) <= 1
    /\ \A i \in DOMAIN output_writes : output_writes[i].writer = output_writes[i].key

C4_Witness ==
    \E n \in NodeIds : invocations[n] >= 2 /\ n \in TraceIds /\ n \in Keys(outputs)

\* C5: in the final state the error is null exactly when no node failed, and
\* with k >= 1 failed nodes it consists of exactly their k messages, each once.
C5_ErrorJoinsEachFailureOnce ==
    NormalReturn =>
        /\ (result.error = NoError) <=> (FailedIds = {})
        /\ Len(result.error) = Cardinality(FailedIds)
        /\ Range(result.error) = UNION {Range(ErrText(f)) : f \in FailedIds}

\* C6: every trace entry has status success or failed, the successes and the
\* failures add up to the length of the trace, and completed_nodes contains
\* every key of outputs and every failed node id.
C6_TraceAndCompletedConsistent ==
    /\ \A i \in DOMAIN execution_trace :
          execution_trace[i].status \in {"success", "failed"}
    /\ Cardinality({i \in DOMAIN execution_trace : execution_trace[i].status = "success"})
         + Cardinality({i \in DOMAIN execution_trace : execution_trace[i].status = "failed"})
         = Len(execution_trace)
    /\ (Keys(outputs) \cup FailedIds) \subseteq completed_nodes

C6_Witness ==
    /\ NormalReturn
    /\ SuccessIds # {}
    /\ FailedIds # {}
    /\ Keys(result.outputs) # {}

\* C7: at the end of a run an id is a key of outputs exactly when it has a
\* success trace entry.
C7_OutputsIffSuccess ==
    NormalReturn => Keys(result.outputs) = SuccessIds

\* C8 as stated: execute never propagates an exception.
C8_ExecuteNeverRaises == pc # "raised"

\* C8 amended: once app.invoke runs, execute does not propagate an exception;
\* it returns the final state, or {error: message, outputs: {}} for an
\* exception that left a node function.  Before app.invoke (preparing tools,
\* building, compiling) execute returns nothing: it goes on or raises.
C8_InvokeNeverRaises ==
    [][/\ pc = "running" =>
             \/ pc' = "running"
             \/ /\ pc' = "returned"
                /\ \/ result' = [error |-> error', outputs |-> outputs']
                   \/ /\ result'.error # NoError
                      /\ result'.outputs = EmptyDict
       /\ pc \in {"constructed", "prepared"} =>
             pc' \in {"prepared", "running", "raised"}]_vars

C8_Witness ==
    /\ pc = "returned"
    /\ tasks # {}
    /\ result.outputs = EmptyDict
    /\ SuccessIds # {}

-----------------------------------------------------------------------------
(* Properties of the guard injectors.                                      *)

\* The tool nodes with a {STn.output} reference and an edge from a node.
TriggeredTools(ir) ==
    {v \in NodeSet(ir) :
        /\ ir.nodes[v].executor = "tool"
        /\ ir.nodes[v].input.kind = "template"
        /\ \E r \in ir.nodes[v].input.refs : r.node \in STIds /\ r.path = ""
        /\ \E e \in Range(ir.edges) : e[2] = v /\ e[1] \in NodeSet(ir)}

InEdgeCount(ir, n) == Cardinality({i \in DOMAIN ir.edges : ir.edges[i][2] = n})

GuardsEveryTriggeredTool(ir, out) ==
    \A v \in TriggeredTools(ir) :
        \E g \in NodeSet(out) \ NodeSet(ir) :
            /\ out.nodes[g].executor = "param_guard"
            /\ out.nodes[v].input = FromGuard(g)
            /\ \A e \in Range(ir.edges) :
                  e[2] = v => /\ <<e[1], g>> \in Range(out.edges)
                              /\ <<g, v>> \in Range(out.edges)
                              /\ e \notin Range(out.edges)
            /\ InEdgeCount(out, g) = Cardinality(Pred(ir, v))

\* C9: in the IR an injector returns, every tool node v that met the trigger
\* condition has input {"__from_guard__": g} for one guard g; for every edge
\* (u, v) of the input the edges (u, g) and (g, v) exist and (u, v) does not;
\* g has as many incoming edges as v had distinct predecessors.
C9_GuardRewiresEveryTriggeredTool ==
    /\ inj_done => GuardsEveryTriggeredTool(inj_ir, inj_out)
    /\ planner_done => GuardsEveryTriggeredTool(inj_ir, planner_out)

\* The tool nodes whose only reference is {ST1.output.days} and that have an
\* edge from ST1.
FieldPathTools(ir) ==
    {v \in NodeSet(ir) :
        /\ ir.nodes[v].executor = "tool"
        /\ ir.nodes[v].input = Template({Ref("ST1", ".days")})
        /\ "ST1" \in NodeSet(ir)
        /\ <<"ST1", v>> \in Range(ir.edges)}

GuardsFieldPathTools(ir, out) ==
    \A v \in FieldPathTools(ir) :
        \E g \in NodeSet(out) \ NodeSet(ir) :
            /\ out.nodes[g].executor = "param_guard"
            /\ out.nodes[g].input.target_input_template = ir.nodes[v].input
            /\ out.nodes[v].input = FromGuard(g)
            /\ <<"ST1", g>> \in Range(out.edges)
            /\ <<g, v>> \in Range(out.edges)
            /\ <<"ST1", v>> \notin Range(out.edges)

\* C10: a tool node that references {ST1.output.days} and has an edge from ST1
\* is rewritten like one referencing {ST1.output}: a guard holding the
\* original input as target_input_template is inserted, the node's input
\* becomes {"__from_guard__": guard}, and the edges run through the guard.
C10_FieldPathReferenceGetsGuard ==
    /\ inj_done => GuardsFieldPathTools(inj_ir, inj_out)
    /\ planner_done => GuardsFieldPathTools(inj_ir, planner_out)

\* C11: applying GuardInjector.inject to its own result returns the same
\* nodes (ids, fields, order) and the same edge list, and no further guard.
C11_InjectIdempotent ==
    inj_twice =>
        /\ inj_out2.nodes = inj_out.nodes
        /\ inj_out2.order = inj_out.order
        /\ inj_out2.edges = inj_out.edges

C11_Witness ==
    /\ inj_twice
    /\ NodeSet(inj_out) # NodeSet(inj_ir)
    /\ inj_out.order # inj_ir.order \o SeqOf(NodeSet(inj_out) \ NodeSet(inj_ir))

\* The nodes that are neither a triggering tool node nor a predecessor of one.
BystanderNodes(ir) ==
    {n \in NodeSet(ir) :
        /\ n \notin TriggeredTools(ir)
        /\ \A v \in TriggeredTools(ir) : <<n, v>> \notin Range(ir.edges)}

LeavesRestUntouched(ir, out) ==
    /\ \A n \in BystanderNodes(ir) : n \in NodeSet(out) /\ out.nodes[n] = ir.nodes[n]
    /\ SelectSeq(out.edges, LAMBDA e : e[2] \in NodeSet(ir) \ TriggeredTools(ir))
         = SelectSeq(ir.edges, LAMBDA e : e[2] \notin TriggeredTools(ir))

\* C12: a node that is neither a triggering tool node nor a predecessor of one
\* is returned with every field equal to its input, and the edges whose target
\* is not a triggering tool node are kept in their original relative order.
C12_NonTriggeringUntouched ==
    /\ inj_done => LeavesRestUntouched(inj_ir, inj_out)
    /\ planner_done => LeavesRestUntouched(inj_ir, planner_out)

C12_Witness ==
    /\ inj_done
    /\ TriggeredTools(inj_ir) # {}
    /\ \E n \in BystanderNodes(inj_ir) : AsIdList(inj_ir.nodes[n].target) # <<>>
    /\ \E e \in Range(inj_ir.edges) : e[2] \notin TriggeredTools(inj_ir)

-----------------------------------------------------------------------------
(* Properties of the validator.                                            *)

Families == {STIds, GuardIds}

NumbersOf(ir, family) == {IdNum(n) : n \in Range(ir.order) \cap family}

WellFormed(ir) ==
    /\ \A e \in EdgeSet(ir) : e[1] \in Range(ir.order) /\ e[2] \in Range(ir.order)
    /\ \A n \in Range(ir.order) : n \notin ReachFrom(EdgeSet(ir), Succ(ir, n))
    /\ \A i, j \in DOMAIN ir.order : i # j => ir.order[i] # ir.order[j]
    /\ \A family \in Families :
          NumbersOf(ir, family) = 1..Cardinality(Range(ir.order) \cap family)

\* C13: an IR the validator reports as valid has only edges between existing
\* nodes, no cycle, unique node ids, and ST and GUARD numbers that are exactly
\* 1..count of their family.
C13_ValidIRIsWellFormed ==
    (val_done /\ val_result.is_valid) => WellFormed(val_ir)

C13_Witness ==
    /\ val_done
    /\ val_result.is_valid
    /\ Len(val_ir.order) = 3
    /\ Len(val_ir.edges) = 2

\* What each of the six checks reports when it is run on its own.
ErrorsOfChecks(ir) ==
    {ValidateNodeIds(ir), ValidateEdgesReference(ir).errors, ValidateDag(ir),
     ValidateTools(ir, AvailableTools), ValidateConnectivity(ir),
     ValidateInputOutput(ir).errors}

WarningsOfChecks(ir) ==
    {ValidateEdgesReference(ir).warnings, ValidateInputOutput(ir).warnings}

Kinds(findings) == {findings[i].kind : i \in DOMAIN findings}

\* C14: is_valid is false exactly when an error was recorded, so warnings
\* alone leave it true; and the result holds the errors and the warnings of
\* every check, whatever the other checks reported.
C14_ErrorsDecideValidity ==
    val_done =>
        /\ val_result.is_valid <=> (val_result.errors = <<>>)
        /\ \A found \in ErrorsOfChecks(val_ir) :
              Range(found) \subseteq Range(val_result.errors)
        /\ \A found \in WarningsOfChecks(val_ir) :
              Range(found) \subseteq Range(val_result.warnings)

C14_Witness ==
    /\ val_done
    /\ ~val_result.is_valid
    /\ {"duplicate_id", "edge_target_missing", "cycle"}
          \subseteq Kinds(val_result.errors)
    /\ val_result.warnings # <<>>

OnCycle(E) == {n \in {e[1] : e \in E} : n \in ReachFrom(E, {e[2] : e \in {x \in E : x[1] = n}})}

NodeEdges(ir) == {e \in EdgeSet(ir) : e[1] \in Range(ir.order) /\ e[2] \in Range(ir.order)}

CycleErrors(r) == SelectSeq(r.errors, LAMBDA f : f.kind = "cycle")

\* One cycle error, and its path walks along edges from a node back to it.
OneActualCycleReported(ir, r) ==
    /\ Len(CycleErrors(r)) = 1
    /\ LET path == CycleErrors(r)[1].path
       IN  /\ Len(path) >= 2
           /\ path[1] = path[Len(path)]
           /\ \A i \in 1..(Len(path) - 1) : <<path[i], path[i + 1]>> \in EdgeSet(ir)
           /\ Range(path) \subseteq Range(ir.order)

\* C15 as stated: whenever the edge list contains a directed cycle, exactly
\* one cycle error is recorded and it lists the ids of an actual cycle.
C15_EveryCycleReported ==
    (val_done /\ OnCycle(EdgeSet(val_ir)) # {})
        => OneActualCycleReported(val_ir, val_result)

\* C15, amended: whenever the edges between existing nodes contain a directed
\* cycle, exactly one cycle error is recorded and it lists the ids of an
\* actual cycle.
C15_NodeCycleReported ==
    (val_done /\ OnCycle(NodeEdges(val_ir)) # {})
        => OneActualCycleReported(val_ir, val_result)

C15_Witness ==
    /\ val_done
    /\ val_ir.edges = <<<<"ST1", "ST2">>, <<"ST2", "ST1">>>>
    /\ Len(CycleErrors(val_result)) = 1
    /\ Range(CycleErrors(val_result)[1].path) = {"ST1", "ST2"}

-----------------------------------------------------------------------------
(* Properties of the planner pipeline.                                     *)

PlanEnded == plan_pc \in {"returned", "raised"}

BuildFails(ir) ==
    \/ ~Materializes(ir)
    \/ ~Validate(InjectParamGuardNodes(ir), AvailableTools).is_valid

\* C16: plan returns an IR only if it is the result of guard injection on the
\* materialized workflow and the validator recorded no error for it; when
\* materialization or validation fails, and whenever plan raises (an empty
\* nodes list included), no IR is returned or stored for execution.
C16_ReturnsOnlyInjectedValidIR ==
    /\ plan_pc = "returned" =>
          /\ plan_result = InjectParamGuardNodes(build_input)
          /\ Validate(plan_result, AvailableTools).errors = <<>>
    /\ (PlanEnded /\ build_input # NoIR /\ BuildFails(build_input)) =>
          plan_pc = "raised"
    /\ plan_pc = "raised" => (plan_result = NoIR /\ last_run.workflow_ir = NoIR)

C16_Witness ==
    /\ plan_pc = "returned"
    /\ "GUARD1" \in NodeSet(plan_result)
    /\ plan_calls = 2

FailedEntries(lr) == {i \in DOMAIN lr.fix_attempts : lr.fix_attempts[i].status = "failed"}

\* C17 as stated: the loop makes at most MAX_FIX_ATTEMPTS attempts, and it
\* gives up exactly after MAX_FIX_ATTEMPTS failed ones.
C17_AtMostMaxFixAttempts ==
    plan_calls > 0 =>
        /\ Len(last_run.fix_attempts) <= max_fix_attempts
        /\ (plan_pc = "raised" /\ last_run.error = "fix attempts exhausted") =>
              Cardinality(FailedEntries(last_run)) = max_fix_attempts

\* C18: the entries of fix_attempts are numbered 1, 2, ... in order, only the
\* last one can be a success, and as many remediation calls were made as
\* there are failed entries.
C18_FixAttemptsNumbered ==
    plan_calls > 0 =>
        /\ \A i \in DOMAIN last_run.fix_attempts :
              /\ last_run.fix_attempts[i].attempt = i
              /\ last_run.fix_attempts[i].status = "success" =>
                    i = Len(last_run.fix_attempts)
        /\ fix_calls = Cardinality(FailedEntries(last_run))

C18_Witness ==
    /\ plan_pc = "returned"
    /\ last_run.fix_attempts = <<AttemptEntry(1, "failed"), AttemptEntry(2, "success")>>
    /\ fix_calls = 1

Taxonomy == {"optimize", "draft", "concretize", "auto_fix_json", "build_workflow_ir"}

\* C19 as stated: after a raise last_run holds the message and a stage of the
\* taxonomy (auto_fix_json for a failed repair, build_workflow_ir for a
\* failed build); after a return error and error_stage are null; a call
\* starts from a fresh last_run.
C19_ErrorStageNamesStage ==
    /\ plan_pc = "raised" =>
          /\ last_run.error # None
          /\ last_run.error_stage \in Taxonomy
          /\ last_run.fixed_json # None => last_run.error_stage = "build_workflow_ir"
          /\ (last_run.fixed_json = None /\ last_run.fix_attempts # <<>>) =>
                last_run.error_stage = "auto_fix_json"
    /\ plan_pc = "returned" =>
          (last_run.error = None /\ last_run.error_stage = None)
    /\ plan_pc = "generate" => last_run = FreshLastRun

-----------------------------------------------------------------------------
(* Properties of parameter overrides.                                      *)

ConsumesGuards(input) ==
    "__from_guard__" \in Keys(input) \/ "__from_guards__" \in Keys(input)

\* C20 as stated: a tool node that consumes guard output and has overrides is
\* invoked with every overridden parameter at its override value and with the
\* other keys of the guard output unchanged.
C20_OverridesWinOverGuard ==
    (ov_pc = "invoked" /\ ConsumesGuards(ov_guarded) /\ ov_overrides # Absent) =>
        LET guard_args == GuardArguments(ov_guarded, ov_outputs)
        IN  /\ Keys(ov_tool_input) = Keys(guard_args) \cup Keys(ov_overrides)
            /\ \A p \in Keys(ov_overrides) : ov_tool_input[p] = ov_overrides[p]
            /\ \A k \in Keys(guard_args) \ Keys(ov_overrides) :
                  ov_tool_input[k] = guard_args[k]

-----------------------------------------------------------------------------
(* Properties of tool_node and llm_node.                                   *)

TraceOf(n) == SelectSeq(execution_trace, LAMBDA t : t.node_id = n)

CallsOf(n) == SelectSeq(calls, LAMBDA c : c.node = n)

Dependents(n) == {d \in Keys(node_dependencies) : n \in node_dependencies[d]}

\* The message of node n has reached the state key "error": in the state n
\* returned, and from the end of its superstep on in the merged value.
MessageMerged(n) ==
    IF n \in Keys(returned) THEN returned[n] = ErrText(n)
    ELSE ErrText(n)[1] \in Range(error)

\* Node n has failed without writing an entry of outputs, and no node that
\* depends on it has executed.
FailedWithoutOutput(n) ==
    /\ Len(TraceOf(n)) = 1
    /\ TraceOf(n)[1].status = "failed"
    /\ MessageMerged(n)
    /\ n \notin Keys(outputs)
    /\ \A i \in DOMAIN output_writes : output_writes[i].writer # n
    /\ \A d \in Dependents(n) : TraceOf(d) = <<>> /\ CallsOf(d) = <<>>

\* Word w stands in text s from position i on.
WordAt(s, i, w) ==
    i + Len(w) - 1 <= Len(s) /\ \A k \in DOMAIN w : s[i + k - 1] = w[k]

\* A failure output in the words of the specification.
FailureOutput(v) ==
    \/ /\ IsStr(v)
       /\ \/ WordAt(Lower(v.str), 1, <<"e", "r", "r", "o", "r">>)
          \/ \E i \in DOMAIN v.str :
                WordAt(Lower(v.str), i, <<"f", "a", "i", "l", "e", "d">>)
    \/ /\ IsDict(v)
       /\ <<"e", "r", "r", "o", "r">> \in DOMAIN v.dict

ToolNotFound(n) ==
    /\ workflow_ir.nodes[n].executor = "tool"
    /\ workflow_ir.nodes[n].tool_name \notin tools \cup mcp_tools

ReturnedFailureOutput(n) ==
    /\ workflow_ir.nodes[n].executor = "tool"
    /\ CallsOf(n) # <<>>
    /\ CallsOf(n)[1].returns # Raises
    /\ FailureOutput(NormalizeToolOutput(CallsOf(n)[1].returns))

\* C21: a tool node whose tool_name is found neither in the tools mapping nor
\* in the registry fails without any tool being invoked, and a tool node
\* whose normalized result is a failure output fails: the trace status is
\* failed, the message is merged into error, no entry of outputs is written
\* and the dependents do not execute.
C21_MissingToolOrFailureOutputFails ==
    \A n \in NodeSet(workflow_ir) :
        /\ (n \in completed_nodes /\ ToolNotFound(n)) =>
                FailedWithoutOutput(n) /\ CallsOf(n) = <<>>
        /\ ReturnedFailureOutput(n) => FailedWithoutOutput(n)

\* A run has ended in which ST2 failed for one of the two reasons and its
\* dependent ST3 was invoked and skipped.
C21_Witness ==
    /\ pc = "returned"
    /\ tasks = {}
    /\ (ToolNotFound("ST2") /\ "ST2" \in completed_nodes) \/ ReturnedFailureOutput("ST2")
    /\ invocations["ST3"] = 1
    /\ TraceOf("ST3") = <<>>

\* The steps of the well-formed path expressions among RefPaths.
Field(k) == [field |-> k]
Index(i) == [index |-> i]

PathSteps(path) ==
    CASE path = <<>> -> <<>>
      [] path = <<".", "a">> -> <<Field(<<"a">>)>>
      [] path = <<".", "b">> -> <<Field(<<"b">>)>>
      [] path = <<"[", "0", "]">> -> <<Index(0)>>
      [] path = <<"[", "1", "]">> -> <<Index(1)>>
      [] path = <<".", "a", "[", "0", "]">> -> <<Field(<<"a">>), Index(0)>>

WellFormedPaths == RefPaths \ {<<"[", "0">>, <<".">>}

\* Some step cannot be taken: a field the mapping does not contain, an index
\* beyond the end of the sequence, an index applied to a value that is not a
\* sequence.
RECURSIVE CannotFollow(_, _)
CannotFollow(v, steps) ==
    IF steps = <<>> THEN FALSE
    ELSE LET step == Head(steps)
         IN  IF DOMAIN step = {"field"}
             THEN IF IsDict(v)
                  THEN IF step.field \in DOMAIN v.dict
                       THEN CannotFollow(v.dict[step.field], Tail(steps))
                       ELSE TRUE
                  ELSE FALSE
             ELSE IF IsList(v)
                  THEN IF step.index + 1 \in DOMAIN v.list
                       THEN CannotFollow(v.list[step.index + 1], Tail(steps))
                       ELSE TRUE
                  ELSE TRUE

\* The pieces a trace input shows.
Shown(input) ==
    IF "_preview" \in DOMAIN input THEN input._preview
    ELSE Flatten([i \in 1..Len(SelectSeq(InputKeyOrder, LAMBDA k : k \in DOMAIN input)) |->
                    input[SelectSeq(InputKeyOrder, LAMBDA k : k \in DOMAIN input)[i]]])

\* The references of the input of node n.
RefsOf(n) ==
    UNION {{p \in Range(workflow_ir.nodes[n].input[k]) : IsRef(p)} :
            k \in DOMAIN workflow_ir.nodes[n].input}

\* A tool node that has run on the output of its edge predecessor X.
RanOnOutputOf(n, X) ==
    /\ workflow_ir.nodes[n].executor = "tool"
    /\ TraceOf(n) # <<>>
    /\ X \in node_dependencies[n]
    /\ X \in Keys(outputs)
    /\ outputs[X] # PyNone

\* C22: for every reference {X.output<path>} where outputs has an entry for X
\* and the path cannot be followed on it, the resolved input of the node
\* holds the literal {Invalid Output Path: X<path>} (resolution did not
\* raise).
C22_UnfollowablePathGivesPlaceholder ==
    \A n \in NodeSet(workflow_ir) : \A p \in RefsOf(n) :
        (/\ RanOnOutputOf(n, p.ref)
         /\ p.path \in WellFormedPaths
         /\ CannotFollow(outputs[p.ref], PathSteps(p.path)))
        => InvalidOutputPath(p.ref, p.path) \in Range(Shown(TraceOf(n)[1].input))

\* Node n was invoked with every edge predecessor in outputs.
InvokedReady(n) ==
    /\ n \in Keys(node_dependencies)
    /\ invocations[n] > 0
    /\ DependenciesReady(n, outputs)

\* Reference p of node n names a node that is no edge predecessor of n and
\* has no entry in outputs (so had none when n ran).
MissingReference(n, p) ==
    /\ p.path = <<>>
    /\ p.ref \notin node_dependencies[n]
    /\ p.ref \notin Keys(outputs)

\* The LLM or tool call of node n returned, and not with a failure output.
CallSucceeded(n) ==
    /\ CallsOf(n) # <<>>
    /\ CallsOf(n)[1].returns # Raises
    /\ workflow_ir.nodes[n].executor = "tool" =>
            ~IsToolFailureOutput(NormalizeToolOutput(CallsOf(n)[1].returns))

RecordedSuccess(n) == TraceOf(n) # <<>> /\ TraceOf(n)[1].status = "success"

ShowsPlaceholder(n, p) ==
    /\ TraceOf(n) # <<>>
    /\ MissingOutput(p.ref) \in Range(Shown(TraceOf(n)[1].input))

DisplayedText(n) ==
    IF workflow_ir.nodes[n].executor = "tool"
    THEN DumpsInput(ResolveDependencies(workflow_ir.nodes[n].input, outputs).val)
    ELSE PromptStr(ResolveDependencies(workflow_ir.nodes[n].input, outputs).val)

\* The placeholder lies in that text and ends within its first
\* MAX_OUTPUT_LENGTH characters.
Displayed(n, p) ==
    \E i \in DOMAIN DisplayedText(n) :
        /\ DisplayedText(n)[i] = MissingOutput(p.ref)
        /\ TextLen(SubSeq(DisplayedText(n), 1, i)) <= MAX_OUTPUT_LENGTH

\* The result of the call of node n can be JSON-encoded for the trace.
ResultDisplayable(n) ==
    workflow_ir.nodes[n].executor = "tool" =>
        Serializable(NormalizeToolOutput(CallsOf(n)[1].returns))

-----------------------------------------------------------------------------
(* Properties of the JSON extractor.                                       *)

\* The characters before and after the embedded JSON text.
Prefix == SubSeq(ext_content, 1,
                 CHOOSE k \in 0..MaxAffixLen :
                    /\ k + Len(ext_json) <= Len(ext_content)
                    /\ SubSeq(ext_content, k + 1, k + Len(ext_json)) = ext_json
                    /\ Len(ext_content) - k - Len(ext_json) <= 1)

Suffix == SubSeq(ext_content, Len(Prefix) + Len(ext_json) + 1, Len(ext_content))

\* No part of the text is a JSON text, and it holds neither tag nor fence.
NonJson(s) ==
    /\ \A i \in DOMAIN s : \A j \in i..Len(s) : ~TryParse(SubSeq(s, i, j))
    /\ \A i \in DOMAIN s : s[i] \notin {"<think>", "</think>", "<fence>"}

\* C24: for a JSON text between a non-JSON prefix and a non-JSON suffix,
\* which may hold stray brackets, extract returns a text that parses to the
\* value of the JSON text.
C24_ExtractReturnsEmbeddedJson ==
    (ext_done /\ NonJson(Prefix) /\ NonJson(Suffix)) =>
        /\ ext_result.ok
        /\ JsonLoads(ext_result.text) = JsonLoads(ext_json)

-----------------------------------------------------------------------------
(* Properties of the tool retriever.                                       *)

PinnedInCatalog == Range(pinned_tools) \cap Range(tools_data)

RankedPart == {n \in Range(rt_result) : n \notin Range(pinned_tools)}

PinnedKeptOnlyCatalogAtMostTopK ==
    /\ PinnedInCatalog \subseteq Range(rt_result)
    /\ Range(rt_result) \subseteq Range(tools_data)
    /\ Cardinality(RankedPart) <= rt_top_k

\* C25 as stated: the result holds every pinned name of the catalog and no
\* name outside the catalog; its non-pinned part holds at most top_k tools,
\* none with score zero.
C25_PinnedKeptNoZeroScore ==
    rt_done => /\ PinnedKeptOnlyCatalogAtMostTopK
               /\ \A n \in RankedPart : rt_scores[n] # 0

\* C25: the result holds every pinned name of the catalog and no name outside
\* the catalog; its non-pinned part holds at most top_k tools, under the
\* lexical (BM25) backend none with score zero.
C25_PinnedKeptNoZeroScoreLexical ==
    rt_done => /\ PinnedKeptOnlyCatalogAtMostTopK
               /\ retriever_mode = "bm25" => \A n \in RankedPart : rt_scores[n] # 0

\* A lexical retrieval that returned a pinned tool of score zero next to a
\* ranked tool and left out an unpinned tool of score zero.
C25_Witness ==
    /\ rt_done
    /\ retriever_mode = "bm25"
    /\ \E p \in PinnedInCatalog : rt_scores[p] = 0 /\ p \in Range(rt_result)
    /\ RankedPart # {}
    /\ \E n \in Range(tools_data) \ Range(pinned_tools) :
          rt_scores[n] = 0 /\ n \notin Range(rt_result)

-----------------------------------------------------------------------------
(* Properties of the state reducers.                                       *)

\* The step that merges the states the tasks of a superstep returned.
MergesSuperstep == pc = "running" /\ returned # EmptyDict /\ returned' = EmptyDict

Wrote(n) == \E i \in DOMAIN output_writes : output_writes[i].writer = n

HasTraceEntry(n, trace) == \E i \in DOMAIN trace : trace[i].node_id = n

\* C26: merging the states returned by the nodes of one superstep loses
\* nothing: the merged outputs holds the entry of every node that wrote one,
\* with the value it wrote, and every node that completed has its entry in
\* execution_trace.
C26_MergeLosesNothing ==
    [][MergesSuperstep =>
         \A n \in tasks \ {START} :
            /\ Wrote(n) => n \in Keys(outputs') /\ n \in Keys(outputs)
                           /\ outputs'[n] = outputs[n]
            /\ n \in completed_nodes => HasTraceEntry(n, execution_trace')]_vars

\* Two start nodes without an edge between them ran in the superstep after
\* __START__, and both have their entry in the final outputs and in the trace.
C26_Witness ==
    /\ pc = "returned"
    /\ "outputs" \in DOMAIN result
    /\ \E a \in StartNodes(workflow_ir), b \in StartNodes(workflow_ir) :
          /\ a # b
          /\ <<a, b>> \notin EdgeSet(workflow_ir)
          /\ <<b, a>> \notin EdgeSet(workflow_ir)
          /\ {a, b} \subseteq Keys(result.outputs)
          /\ Wrote(a) /\ Wrote(b)
          /\ HasTraceEntry(a, execution_trace)
          /\ HasTraceEntry(b, execution_trace)


\* The tool nodes whose input holds a substring {STk.output}.
HoldsOutputRef(ir) ==
    {v \in NodeSet(ir) :
        /\ ir.nodes[v].executor = "tool"
        /\ ir.nodes[v].input.kind = "template"
        /\ \E r \in ir.nodes[v].input.refs : r.node \in STIds /\ r.path = ""}

NoToolKeepsOutputRef(ir, out) ==
    /\ HoldsOutputRef(out) = {}
    /\ \A v \in HoldsOutputRef(ir) :
          \E g \in NodeSet(out) : /\ out.nodes[g].executor = "param_guard"
                                  /\ out.nodes[v].input = FromGuard(g)

\* C27: after guard injection no tool node's input holds a substring
\* {STk.output}; every tool node whose input held one consumes through a
\* guard, with or without an incoming edge from the referenced node.
C27_NoToolKeepsOutputRef ==
    /\ inj_done => NoToolKeepsOutputRef(inj_ir, inj_out)
    /\ planner_done => NoToolKeepsOutputRef(inj_ir, planner_out)

-----------------------------------------------------------------------------
(* Properties of build_graph.                                              *)

InDegreeZero(ir) == {n \in NodeSet(ir) : \A e \in EdgeSet(ir) : e[2] # n}

OutDegreeZero(ir) == {n \in NodeSet(ir) : \A e \in EdgeSet(ir) : e[1] # n}

\* The nodes the compiled graph starts with: the entry point, or the nodes
\* __START__ feeds.
EntryNodes(ir) ==
    IF START \in EntryTasks(ir)
    THEN {e[2] : e \in {x \in GraphEdges(ir) : x[1] = START}}
    ELSE EntryTasks(ir)

\* C28: the compiled graph has as entry nodes exactly the nodes without
\* incoming edge and as exit nodes exactly the nodes without outgoing edge;
\* with several entry nodes __START__ feeds each of them; every node without
\* incoming edge has been invoked when the run ends.
C28_EntryAndExitFollowEdges ==
    /\ pc \in {"running", "returned"} =>
          /\ EntryNodes(workflow_ir) = InDegreeZero(workflow_ir)
          /\ EndNodes(workflow_ir) = OutDegreeZero(workflow_ir)
          /\ Cardinality(InDegreeZero(workflow_ir)) > 1 =>
                \A n \in InDegreeZero(workflow_ir) :
                    <<START, n>> \in GraphEdges(workflow_ir)
    /\ pc = "returned" /\ tasks = {} =>
          \A n \in InDegreeZero(workflow_ir) : invocations[n] > 0

-----------------------------------------------------------------------------
(* Properties of the connectivity and data-flow checks.                    *)

ConnectivityErrors ==
    SelectSeq(val_result.errors,
              LAMBDA e : e.kind \in {"no_start_node", "no_end_node", "unreachable"})

WithoutIncoming(ir) == {n \in Range(ir.order) : \A e \in EdgeSet(ir) : e[2] # n}

WithoutOutgoing(ir) == {n \in Range(ir.order) : \A e \in EdgeSet(ir) : e[1] # n}

\* C29: for an IR of at least two nodes the validator records a connectivity
\* error exactly when no node is without incoming edge, or no node is without
\* outgoing edge, or some node cannot be reached along the edges from a node
\* without incoming edge.
C29_ConnectivityErrorIffEdgesDisconnect ==
    val_done /\ Len(val_ir.order) >= 2 =>
        (ConnectivityErrors # <<>>
            <=> \/ WithoutIncoming(val_ir) = {}
                \/ WithoutOutgoing(val_ir) = {}
                \/ Range(val_ir.order)
                     \ ReachFrom(EdgeSet(val_ir), WithoutIncoming(val_ir)) # {})


\* The references {X.output<path>} found anywhere in the input of node n.
ReferencesOf(ir, n) ==
    IF ir.nodes[n].input.kind \in {"template", "nested"}
    THEN ir.nodes[n].input.refs ELSE {}

Recorded(findings, f) == \E i \in DOMAIN findings : findings[i] = f

RefMissingNode(n, x) ==
    [level |-> "error", kind |-> "ref_missing_node", node |-> n, id |-> x]

RefSelf(n) == [level |-> "error", kind |-> "ref_self", node |-> n]

RefWithoutEdge(n, x) ==
    [level |-> "warning", kind |-> "ref_without_edge", node |-> n, id |-> x]

\* C30: the validator records an error for every reference {X.output<path>}
\* in a node's input, with or without field path, at top level or nested,
\* whose X is no node or the node itself, so a valid IR has no such reference;
\* a reference to another existing node without direct edge gives a warning
\* and no error.
C30_BadReferencesAreErrors ==
    val_done =>
        \A n \in Range(val_ir.order) : \A r \in ReferencesOf(val_ir, n) :
            /\ r.node \notin Range(val_ir.order) =>
                  /\ Recorded(val_result.errors, RefMissingNode(n, r.node))
                  /\ ~val_result.is_valid
            /\ r.node = n =>
                  /\ Recorded(val_result.errors, RefSelf(n))
                  /\ ~val_result.is_valid
            /\ (/\ r.node \in Range(val_ir.order) /\ r.node # n
                /\ <<r.node, n>> \notin EdgeSet(val_ir)) =>
                  /\ Recorded(val_result.warnings, RefWithoutEdge(n, r.node))
                  /\ ~Recorded(val_result.errors, RefMissingNode(n, r.node))
                  /\ ~Recorded(val_result.errors, RefSelf(n))

-----------------------------------------------------------------------------
(* Properties of guard id allocation and node order.                       *)

AllocatedGuards(ir, out) == NodeSet(out) \ NodeSet(ir)

\* The nodes whose input the injection rewrote to consume from a guard.
Rewired(ir, out) ==
    {v \in NodeSet(ir) : /\ out.nodes[v].input # ir.nodes[v].input
                         /\ out.nodes[v].input.kind = "from_guard"}

DenseNumbers(order) ==
    /\ {IdNum(n) : n \in Range(order) \cap STIds}
         = 1..Cardinality(Range(order) \cap STIds)
    /\ {IdNum(n) : n \in Range(order) \cap GuardIds}
         = 1..Cardinality(Range(order) \cap GuardIds)

\* ST nodes before GUARD nodes, each family by increasing number.
FamilyOrdered(order) ==
    \A i, j \in DOMAIN order :
        i < j => /\ ~(order[i] \in GuardIds /\ order[j] \in STIds)
                 /\ ((order[i] \in GuardIds) <=> (order[j] \in GuardIds))
                       => IdNum(order[i]) < IdNum(order[j])

FreshGuardIdsInOrder(ir, out) ==
    /\ \A g \in AllocatedGuards(ir, out) :
          /\ g \in GuardIds
          /\ \A n \in NodeSet(ir) \cap GuardIds : IdNum(g) > IdNum(n)
    /\ \A v, w \in Rewired(ir, out) :
          v # w => out.nodes[v].input.guard # out.nodes[w].input.guard
    /\ {out.nodes[v].input.guard : v \in Rewired(ir, out)} = AllocatedGuards(ir, out)
    /\ DenseNumbers(ir.order) => DenseNumbers(out.order)
    /\ Range(out.order) = NodeSet(out)
    /\ FamilyOrdered(out.order)

\* C31: every guard id the injector allocates is GUARD<k> with k above every
\* GUARD index of the input, distinct guards get distinct ids, so a dense IR
\* stays dense; the returned node list has the ST nodes before the GUARD
\* nodes, each family in increasing numeric order.
C31_FreshGuardIdsInOrder ==
    inj_done => FreshGuardIdsInOrder(inj_ir, inj_out)

\* Two guards were allocated above an existing guard, for an input that
\* listed its nodes in reverse order.
C31_Witness ==
    /\ inj_done
    /\ NodeSet(inj_ir) \cap GuardIds # {}
    /\ Cardinality(AllocatedGuards(inj_ir, inj_out)) = 2
    /\ ~FamilyOrdered(inj_ir.order)

-----------------------------------------------------------------------------
(* Properties of the node classes.                                         *)

\* The callback was called once for every trace entry, in the order of the
\* entries, each time after its entry was appended and with the status the
\* entry still has.
CalledOncePerEntry ==
    IF ctx_broadcast_callback
    THEN /\ Len(broadcasts) = Len(ctx_execution_trace)
         /\ \A i \in DOMAIN broadcasts :
               /\ broadcasts[i].at = i
               /\ broadcasts[i].entry = ctx_execution_trace[i]
    ELSE broadcasts = <<>>

\* Whatever execute does on node n, it leaves the same state, trace and
\* completed set when the callback raises as when it returns.
RaisingCallbackChangesNothing(n) ==
    \A outcome \in ExecuteOutcomes(NodeType(n)) :
        LET raised == Execute(n, outcome, TRUE)
            returned_normally == Execute(n, outcome, FALSE)
        IN  /\ raised.outputs = returned_normally.outputs
            /\ raised.error = returned_normally.error
            /\ raised.context.trace = returned_normally.context.trace
            /\ raised.context.completed = returned_normally.context.completed

\* C32: an exception raised by the broadcast callback changes neither outputs,
\* error, the trace nor the completed set, the entry keeps its status, and
\* the callback is called exactly once per trace entry, after the append.
C32_CallbackExceptionSwallowed ==
    /\ CalledOncePerEntry
    /\ \A n \in CtxNodes :
          ctx_broadcast_callback /\ ShouldExecute(n) => RaisingCallbackChangesNothing(n)

\* The callback raised on the entry of a node that succeeded after its
\* predecessor; no error was recorded.
C32_Witness ==
    /\ \E i \in DOMAIN broadcasts :
          /\ broadcasts[i].raised
          /\ i > 1
          /\ ctx_execution_trace[i].status = "success"
          /\ ctx_execution_trace[i].node_id \in DOMAIN state_outputs
    /\ state_error = NoError

-----------------------------------------------------------------------------
(* Properties of the MCP tool manager.                                     *)

ConnectionsOf(server) ==
    {i \in DOMAIN created_connections : created_connections[i].server = server}

\* C33: in every interleaving of call_tool and prepare_tools at most one
\* connection is created and started per server, and every tool call is
\* issued on a connection that is ready.
C33_OneConnectionPerServer ==
    /\ \A server \in Servers : Cardinality(ConnectionsOf(server)) <= 1
    /\ \A i \in DOMAIN tool_calls : tool_calls[i].ready

-----------------------------------------------------------------------------
(* Properties of the reducers.                                             *)

\* C34: merge_errors and merge_current_tasks have the empty value (None, the
\* empty list) as identity on both sides and are associative.
C34_ReducersAreMonoids ==
    merge_done =>
        /\ merge_results.errors_empty_left = merge_errors_args["a"]
        /\ merge_results.errors_empty_right = merge_errors_args["a"]
        /\ merge_results.errors_left_grouped = merge_results.errors_right_grouped
        /\ merge_results.tasks_empty_left = merge_tasks_args["a"]
        /\ merge_results.tasks_empty_right = merge_tasks_args["a"]
        /\ merge_results.tasks_left_grouped = merge_results.tasks_right_grouped


\* C35: the guard injector turns an acyclic IR into an acyclic IR, and between
\* two nodes of the input b is reachable from a after the injection exactly
\* when it was before.
InputAcyclic == Acyclic(EdgeSet(inj_ir), NodeSet(inj_ir))

SameReachability(before, after) ==
    \A a, b \in NodeSet(before) :
        (b \in Descendants(after, a)) <=> (b \in Descendants(before, a))

C35_InjectionKeepsDagAndReachability ==
    (inj_done /\ InputAcyclic) =>
        /\ Acyclic(EdgeSet(inj_out), NodeSet(inj_out))
        /\ SameReachability(inj_ir, inj_out)

\* An acyclic IR in which a guard was put on a path of two edges.
C35_Witness ==
    /\ inj_done
    /\ InputAcyclic
    /\ \E a, t, b \in NodeSet(inj_ir) :
          /\ t \in Range(GuardTargets(inj_ir))
          /\ <<a, t>> \in EdgeSet(inj_ir)
          /\ <<t, b>> \in EdgeSet(inj_ir)
          /\ b \in Descendants(inj_out, a)


\* C36: invoking a node function while the node is completed, or while an
\* edge predecessor has no entry in outputs, changes nothing: outputs, the
\* trace and the completed set stay as they are, and so does the error once
\* the returned state is merged.
InvokedNow(n) == invocations'[n] = invocations[n] + 1

NothingToDo(n) ==
    \/ n \in completed_nodes
    \/ \E p \in Pred(workflow_ir, n) : p \notin Keys(outputs)

ReturnsNoChange(n) ==
    /\ outputs' = outputs
    /\ execution_trace' = execution_trace
    /\ completed_nodes' = completed_nodes
    /\ n \in Keys(returned')
    /\ merge_errors(error, returned'[n]) = error

C36_SkippedInvocationIsNoOp ==
    [][\A n \in NodeSet(workflow_ir) :
          (InvokedNow(n) /\ NothingToDo(n)) => ReturnsNoChange(n)]_vars


\* C37: on an IR whose edges reference existing nodes, GuardInjector.inject
\* and SubtaskPlanner._inject_param_guard_nodes return the same nodes in the
\* same order with the same executor, tool_name and input, and the same edge
\* list; the source and target hints name the same ids, as one id or as a list.
EdgesReferenceNodes(ir) ==
    \A e \in EdgeSet(ir) : e[1] \in NodeSet(ir) /\ e[2] \in NodeSet(ir)

SameButHints(x, y) ==
    /\ x.order = y.order
    /\ NodeSet(x) = NodeSet(y)
    /\ x.edges = y.edges
    /\ \A n \in NodeSet(x) \cap NodeSet(y) :
          /\ x.nodes[n].executor = y.nodes[n].executor
          /\ x.nodes[n].tool_name = y.nodes[n].tool_name
          /\ x.nodes[n].input = y.nodes[n].input

SameHintIds(x, y) ==
    \A n \in NodeSet(x) \cap NodeSet(y) :
        /\ AsIdList(x.nodes[n].source) = AsIdList(y.nodes[n].source)
        /\ AsIdList(x.nodes[n].target) = AsIdList(y.nodes[n].target)

C37_InjectorsAgree ==
    (inj_done /\ EdgesReferenceNodes(inj_ir)) =>
        /\ SameButHints(inj_out, InjectParamGuardNodes(inj_ir))
        /\ SameHintIds(inj_out, InjectParamGuardNodes(inj_ir))

-----------------------------------------------------------------------------
(* Properties of the bracket-matching scan.                                *)

\* C38: the bracket-matching scan terminates on every text; after a balanced
\* candidate that does not parse it goes on strictly behind the candidate's
\* opening position, so the start positions only increase, and it ends with
\* a substring that parses or with no result.
StartsOnlyIncrease ==
    \A i, j \in DOMAIN scan_starts : i < j => scan_starts[i] < scan_starts[j]

CandidateFails ==
    /\ scan.start_idx # -1
    /\ scan'.start_idx = -1
    /\ ~TryParse(SubSeq(scan_content, scan.start_idx + 1, scan.idx + 1))
    /\ scan.stack = <<ClosingMap(scan_content[scan.start_idx + 1])>>
    /\ scan_content[scan.idx + 1] = scan.stack[1]
    /\ ~scan.in_string

EndsWithParseableOrNothing ==
    scan_done =>
        \/ scan_result = NoText
        \/ /\ scan_result.ok
           /\ TryParse(scan_result.text)
           /\ \E i, j \in 1..Len(scan_content) :
                 scan_result.text = SubSeq(scan_content, i, j)

C38_ScanTerminates ==
    /\ <>scan_done
    /\ []StartsOnlyIncrease
    /\ []EndsWithParseableOrNothing
    /\ [][CandidateFails => scan'.idx = scan.start_idx + 1]_vars

\* A scan that found its result after a candidate that did not parse.
C38_Witness ==
    /\ scan_done
    /\ scan_result.ok
    /\ Len(scan_starts) >= 2
    /\ scan_starts[2] = scan_starts[1] + 1
    /\ \E j \in 1..Len(scan_content) :
          /\ scan_content[j] = ClosingMap(scan_content[scan_starts[1] + 1])
          /\ ~TryParse(SubSeq(scan_content, scan_starts[1] + 1, j))
    /\ scan_result = ExtractByBracketMatching(scan_content)

====
